---- MODULE Spec2Model ----
(***************************************************************************)
(* Verification model of the powermoniter device-subscription runtime.     *)
(*                                                                         *)
(* The subsystems modelled, each with its specification:                   *)
(*   SpecMgr    - apps/services/subscription_manager.py together with the  *)
(*                subscriber registry (worker tasks, task table, gauge);   *)
(*   SpecIngest - apps/services/ingestion_service.py driven by             *)
(*                SubscriptionManager._handle_envelope (readings, dedup);  *)
(*   SpecConn   - apps/adapters/mqtt_adapter.py, one SharedMQTTConnection  *)
(*                (routing table, connect / reconnect / close);            *)
(*   SpecRoute  - the same connection with the messages it routes;         *)
(*   SpecRetry  - apps/subscribers/retry.py, RetryPolicy.next_delay over   *)
(*                policies and attempts;                                   *)
(*   SpecQuery  - apps/services/device_api_service.py behind the route     *)
(*                GET /v1/devices/{id}/electricity (bucketed aggregation); *)
(*   SpecAuth   - apps/services/auth_service.py, login and the lock-out;   *)
(*   SpecList   - DeviceApiService.list_devices and the runtime status;    *)
(*   SpecCfg    - the manager over a stored MQTT configuration, and the    *)
(*                publish endpoint of apps/api/routes/devices.py;          *)
(*   SpecShutdown - the manager with SubscriptionManager.shutdown;         *)
(*   SpecPool   - SharedMQTTConnectionPool: connection keys and the        *)
(*                connection objects handed out for them;                  *)
(*   SpecHash   - _hash_payload over pairs of (nested) payloads;           *)
(*   SpecConnLive, SpecShutdownLive - the connection and the manager under *)
(*                the scheduling of the event loop (liveness).             *)
(*                                                                         *)
(* asyncio is cooperative: a coroutine runs atomically from one suspension *)
(* point to the next, so every action below is one such run.  A task that  *)
(* has been cancelled receives CancelledError at its next resumption.      *)
(***************************************************************************)
EXTENDS Integers, Sequences, FiniteSets, TLC

VARIABLES
    \* ---- subscription manager (SpecMgr)
    tasks,       \* SubscriptionManager._tasks: mac -> task id (0 = no entry)
    task,        \* every worker task ever created: id -> record
    nextTask,    \* next unused task id
    records,     \* SubscriberRegistry._records (the set of its keys)
    gauge,       \* ACTIVE_SUBSCRIBERS gauge
    call,        \* manager calls in progress: caller -> record
    \* ---- ingestion (SpecIngest)
    rows,        \* Reading table: sequence of rows in insertion order
    deadRows,    \* DeadLetter table: sequence of rows
    counter,     \* prometheus counters used by the ingestion path
    clock,       \* datetime.now(timezone.utc)
    hnd,         \* _handle_envelope invocations: handler -> record
    handled,     \* history: (device mac, payload) pairs already ingested
    \* ---- shared MQTT connection (SpecConn)
    conn,        \* SharedMQTTConnection fields
    client,      \* the paho client and its network thread
    topics,      \* SharedMQTTConnection._topics: topic -> subscription or NoSub
    queues,      \* queue objects: queue id -> sequence of envelopes
    rtask,       \* reconnect tasks ever created: id -> state
    loopq,       \* callbacks posted with call_soon_threadsafe, FIFO
    op,          \* pool calls in progress: caller -> record
    mcount,      \* registry counters touched by the connection
    \* ---- the workers behind the topic queues (SpecRoute)
    listener,    \* queue id -> the worker consuming it (MQTTAdapter.listen)
    written,     \* Reading writes of those workers, in the order they happen
    \* ---- a retry policy and the delays asked of it (SpecRetry)
    policy,      \* a RetryPolicy value: base_delay, max_delay, max_attempts
    waits,       \* the last two next_delay calls: attempt and outcome
    \* ---- the electricity query (SpecQuery)
    db,          \* connection.vendor, the device row and its Reading rows
    end_utc,     \* DeviceApiService._now() of the request, in ticks since the epoch
    request,     \* the request being served: window and device
    buckets,     \* get_device_electricity: the buckets it aggregated
    response,    \* what the route answered
    \* ---- login (SpecAuth)
    user,        \* the User row: pw_fail_count and last_login_at
    wall,        \* datetime.now(timezone.utc), in minutes
    login,       \* AuthService.login calls in progress: caller -> record
    logins,      \* the logins answered so far, in the order of their answers
    \* ---- the device list (SpecList)
    inventory,   \* a Device row, the ts of its Reading rows, and _now()
    listing,     \* what list_devices returned for it
    \* ---- the stored MQTT configuration and the publish endpoint (SpecCfg)
    device_row,  \* the Device row of the manager's device: its MQTT settings
    published,   \* the last answer of POST .../macs/{mac}/publish
    \* ---- shutdown of the manager (SpecShutdown)
    shut,        \* the shutdown() call: where it is and the tasks it still awaits
    \* ---- the connection pool (SpecPool)
    connections, \* SharedMQTTConnectionPool._connections: key -> connection (0 = none)
    uses,        \* every (call, key, connection) the pool has handed out
    \* ---- the payload digest (SpecHash)
    hashed       \* two payloads and the payload_hash computed for each

mgrVars == <<tasks, task, nextTask, records, gauge, call>>
ingVars == <<rows, deadRows, counter, clock, hnd, handled>>
connVars == <<conn, client, topics, queues, rtask, loopq, op, mcount>>
lsnVars == <<listener, written>>
polVars == <<policy, waits>>
qryVars == <<db, end_utc, request, buckets, response>>
authVars == <<user, wall, login, logins>>
listVars == <<inventory, listing>>
cfgVars == <<device_row, published>>
shutVars == <<shut>>
poolVars == <<connections, uses>>
hashVars == <<hashed>>
extVars == <<authVars, listVars, cfgVars, shutVars, poolVars, hashVars>>
fnVars == <<polVars, qryVars, extVars>>
vars == <<mgrVars, ingVars, connVars, lsnVars, fnVars>>

(***************************************************************************)
(* Bounds of the model.                                                    *)
(***************************************************************************)
\* RetryPolicy.max_attempts.  The code's default is 12; the manager and the
\* connection depend on it only through the comparisons attempt > max_attempts
\* and attempt >= max_attempts, so the model runs with a small value.
max_attempts == 1
\* Number of worker tasks the manager may create in one behaviour.
MaxTasks == 2

Macs == {"AA01"}
Callers == {"c1", "c2"}
TaskIds == 1..MaxTasks

Min(a, b) == IF a < b THEN a ELSE b

(***************************************************************************)
(* RetryPolicy                                                             *)
(***************************************************************************)
base_delay == 1
max_delay == 60

RECURSIVE Pow2(_)
Pow2(n) == IF n <= 0 THEN 1 ELSE 2 * Pow2(n - 1)

\* RetryPolicy.next_delay: the exception it raises ("none" when it returns) and
\* the delay it returns.
next_delay_off_by_one(attempt) ==
    IF attempt < 1 THEN [raises |-> "ValueError", delay |-> 0]
    ELSE IF attempt >= max_attempts THEN [raises |-> "RuntimeError", delay |-> 0]
    ELSE [raises |-> "none", delay |-> Min(base_delay * Pow2(attempt - 1), max_delay)]

next_delay(attempt) ==
    IF attempt < 1 THEN [raises |-> "ValueError", delay |-> 0]
    ELSE IF attempt > max_attempts THEN [raises |-> "RuntimeError", delay |-> 0]
    ELSE [raises |-> "none", delay |-> Min(base_delay * Pow2(attempt - 1), max_delay)]

(***************************************************************************)
(* Subscription manager                                                    *)
(***************************************************************************)
NoRow == [status |-> "NONE", collect_enabled |-> FALSE]
DeviceRow == [status : {"ENABLED", "DISABLED"}, collect_enabled : BOOLEAN]

\* SubscriptionManager._should_collect
should_collect(device) ==
    device.status = "ENABLED" /\ device.collect_enabled

NoTask == [mac |-> "-", pc |-> "unborn", attempt |-> 0, create_attempt |-> 0,
           must_cancel |-> FALSE, after |-> "-", awaiting |-> 0, how |-> "-"]

IdleCall == [pc |-> "idle", mac |-> "-", collect |-> FALSE,
             awaiting |-> 0, new |-> 0, pre |-> 0, overlap |-> FALSE,
             raised |-> FALSE]

Done(t) == task[t].pc = "done"
Live(t) == task[t].pc \notin {"unborn", "done"}

\* A finished task; the retry counters are kept only for a worker that
\* terminated itself (they are dead otherwise).
Finished(rec, how) ==
    [rec EXCEPT !.pc = "done", !.how = how, !.must_cancel = FALSE,
                !.after = "-", !.awaiting = 0,
                !.attempt = IF how = "selfterm" THEN @ ELSE 0,
                !.create_attempt = IF how = "selfterm" THEN @ ELSE 0]

MgrInit ==
    /\ tasks = [m \in Macs |-> 0]
    /\ task = [t \in TaskIds |-> NoTask]
    /\ nextTask = 1
    /\ records = {}
    /\ gauge = 0
    /\ call = [c \in Callers |-> IdleCall]

T(t, rec) == [task EXCEPT ![t] = rec]

\* SubscriberRegistry.activate / deactivate: the keys of _records afterwards.
activate(recs, mac) == recs \cup {mac}

deactivate(recs, mac) == recs \ {mac}

\* Where the worker goes once the finally block (lines 178-182) has run.
AfterFinally(rec, after) ==
    CASE after = "continue" -> [rec EXCEPT !.pc = "refresh", !.after = "-"]
      [] after = "sleep" -> [rec EXCEPT !.pc = "sleep1", !.after = "-"]
      [] after = "return" -> Finished(rec, "selfterm")
      [] after = "cancelled" -> Finished(rec, "cancelled")
      [] OTHER -> Finished(rec, "error")

\* The finally block of _run_device: adapter.disconnect() either completes
\* without suspending (susp = FALSE) and deactivate follows in the same run, or
\* it suspends and the worker waits at "cleanup".
Finally(t, rec, after, susp) ==
    IF susp
    THEN /\ task' = T(t, [rec EXCEPT !.pc = "cleanup", !.after = after])
         /\ UNCHANGED <<records, gauge>>
    ELSE /\ task' = T(t, AfterFinally(rec, after))
         /\ records' = deactivate(records, rec.mac)
         /\ gauge' = Cardinality(records')

\* The worker calling stop_for_device(device.mac) on itself after the retry
\* policy gave up (lines 152 and 174), followed by return.  path is "create"
\* (line 152, outside the try/finally) or "run" (line 174, inside it).
WorkerStop(t, rec, path, susp) ==
    LET m == rec.mac
        u == tasks[m]
    IN  /\ tasks' = [tasks EXCEPT ![m] = 0]
        /\ IF u = 0 \/ (u # t /\ Done(u) /\ task[u].how # "error")
           THEN IF path = "run"
                THEN Finally(t, rec, "return", susp)
                ELSE /\ task' = T(t, Finished(rec, "selfterm"))
                     /\ UNCHANGED <<records, gauge>>
           ELSE IF u = t
           THEN \* task.cancel() on the running task, then await task: the
                \* task is resumed with CancelledError one iteration later.
                /\ task' = T(t, [rec EXCEPT !.pc = "self_stop", !.after = path])
                /\ UNCHANGED <<records, gauge>>
           ELSE IF Done(u)
           THEN \* await of a task that ended with an error re-raises it
                IF path = "run"
                THEN Finally(t, rec, "error", susp)
                ELSE /\ task' = T(t, Finished(rec, "error"))
                     /\ UNCHANGED <<records, gauge>>
           ELSE /\ task' = [task EXCEPT
                              ![u].must_cancel = TRUE,
                              ![t] = [rec EXCEPT !.pc = "await_other",
                                                 !.after = path,
                                                 !.awaiting = u]]
                /\ UNCHANGED <<records, gauge>>

Runnable(t, pc) == task[t].pc = pc /\ ~task[t].must_cancel

\* First run of a new task: up to the await of refresh_from_db (line 139).
WorkerStart(t) ==
    /\ Runnable(t, "start")
    /\ task' = T(t, [task[t] EXCEPT !.pc = "refresh"])
    /\ UNCHANGED <<tasks, nextTask, records, gauge, call>>
    /\ UNCHANGED <<ingVars, connVars, lsnVars, fnVars>>

\* Lines 139-156: refresh the row, leave when no longer eligible, build the
\* adapter.  row: what the device table holds when it is read; NoRow stands
\* for any failure of the storage call (row deleted, connection lost), which
\* is raised outside every try block.
\* cfg_ok: AdapterFactory.create succeeds for the refreshed configuration.
Refresh(t, row, cfg_ok) ==
    /\ Runnable(t, "refresh")
    /\ LET rec == task[t]
       IN  IF row = NoRow
           THEN /\ task' = T(t, Finished(rec, "error"))
                /\ UNCHANGED <<tasks, records, gauge>>
           ELSE IF ~should_collect(row)
           THEN /\ task' = T(t, Finished(rec, "returned"))
                /\ UNCHANGED <<tasks, records, gauge>>
           ELSE IF cfg_ok
           THEN /\ task' = T(t, [rec EXCEPT !.pc = "connect", !.create_attempt = 0])
                /\ UNCHANGED <<tasks, records, gauge>>
           ELSE LET r2 == [rec EXCEPT !.create_attempt = @ + 1]
                IN  IF next_delay(r2.create_attempt).raises = "RuntimeError"
                    THEN WorkerStop(t, r2, "create", FALSE)
                    ELSE /\ task' = T(t, [r2 EXCEPT !.pc = "create_wait"])
                         /\ UNCHANGED <<tasks, records, gauge>>
    /\ UNCHANGED <<nextTask, call>>
    /\ UNCHANGED <<ingVars, connVars, lsnVars, fnVars>>

\* Line 149 returns after the sleep; continue (line 154).
CreateWaitDone(t) ==
    /\ Runnable(t, "create_wait")
    /\ task' = T(t, [task[t] EXCEPT !.pc = "refresh"])
    /\ UNCHANGED <<tasks, nextTask, records, gauge, call>>
    /\ UNCHANGED <<ingVars, connVars, lsnVars, fnVars>>

\* Lines 159-162: connect succeeded, activate, wait for the first envelope.
ConnectOk(t) ==
    /\ Runnable(t, "connect")
    /\ task' = T(t, [task[t] EXCEPT !.pc = "listen"])
    /\ records' = activate(records, task[t].mac)
    /\ gauge' = Cardinality(records')
    /\ UNCHANGED <<tasks, nextTask, call>>
    /\ UNCHANGED <<ingVars, connVars, lsnVars, fnVars>>

\* Lines 167-176: a non-cancellation exception in connect, listen or
\* _handle_envelope.
Failure(t, susp) ==
    LET r2 == [task[t] EXCEPT !.attempt = @ + 1]
    IN  IF next_delay(r2.attempt).raises = "RuntimeError"
        THEN WorkerStop(t, r2, "run", susp)
        ELSE /\ task' = T(t, [r2 EXCEPT !.pc = "retry_wait"])
             /\ UNCHANGED <<tasks, records, gauge>>

ConnectFail(t, susp) ==
    /\ Runnable(t, "connect")
    /\ Failure(t, susp)
    /\ UNCHANGED <<nextTask, call>>
    /\ UNCHANGED <<ingVars, connVars, lsnVars, fnVars>>

\* Line 162: the adapter yields an envelope; line 163 awaits its handling.
Envelope(t) ==
    /\ Runnable(t, "listen")
    /\ task' = T(t, [task[t] EXCEPT !.pc = "handle"])
    /\ UNCHANGED <<tasks, nextTask, records, gauge, call>>
    /\ UNCHANGED <<ingVars, connVars, lsnVars, fnVars>>

\* Lines 163-164: _handle_envelope returned (reading, duplicate or dead-letter).
HandleOk(t) ==
    /\ Runnable(t, "handle")
    /\ task' = T(t, [task[t] EXCEPT !.pc = "listen", !.attempt = 0])
    /\ UNCHANGED <<tasks, nextTask, records, gauge, call>>
    /\ UNCHANGED <<ingVars, connVars, lsnVars, fnVars>>

\* _handle_envelope raised (record_dead_letter failed).
HandleRaise(t, susp) ==
    /\ Runnable(t, "handle")
    /\ Failure(t, susp)
    /\ UNCHANGED <<nextTask, call>>
    /\ UNCHANGED <<ingVars, connVars, lsnVars, fnVars>>

\* adapter.listen() raised (TCP read error).
ListenRaise(t, susp) ==
    /\ Runnable(t, "listen")
    /\ Failure(t, susp)
    /\ UNCHANGED <<nextTask, call>>
    /\ UNCHANGED <<ingVars, connVars, lsnVars, fnVars>>

\* adapter.listen() ended (TCP end of stream): finally, then sleep (line 183).
ListenEnd(t, susp) ==
    /\ Runnable(t, "listen")
    /\ Finally(t, task[t], "sleep", susp)
    /\ UNCHANGED <<tasks, nextTask, call>>
    /\ UNCHANGED <<ingVars, connVars, lsnVars, fnVars>>

\* Line 171 returns after the sleep; continue (line 176) runs the finally block.
RetryWaitDone(t, susp) ==
    /\ Runnable(t, "retry_wait")
    /\ Finally(t, task[t], "continue", susp)
    /\ UNCHANGED <<tasks, nextTask, call>>
    /\ UNCHANGED <<ingVars, connVars, lsnVars, fnVars>>

\* Line 180 returned (or raised an Exception, suppressed); lines 181-182.
CleanupDone(t) ==
    /\ Runnable(t, "cleanup")
    /\ Finally(t, task[t], task[t].after, FALSE)
    /\ UNCHANGED <<tasks, nextTask, call>>
    /\ UNCHANGED <<ingVars, connVars, lsnVars, fnVars>>

Sleep1Done(t) ==
    /\ Runnable(t, "sleep1")
    /\ task' = T(t, [task[t] EXCEPT !.pc = "refresh"])
    /\ UNCHANGED <<tasks, nextTask, records, gauge, call>>
    /\ UNCHANGED <<ingVars, connVars, lsnVars, fnVars>>

\* A worker that stays suspended in the "await task" on itself.
StopNeverReturns(t, rec, susp) ==
    /\ task' = T(t, [rec EXCEPT !.pc = "await_other", !.awaiting = t])
    /\ UNCHANGED <<records, gauge>>

\* stop_for_device returned inside the worker; return (lines 153 / 175).
StopReturned(t, rec, susp) ==
    IF rec.after = "run"
    THEN Finally(t, rec, "return", susp)
    ELSE /\ task' = T(t, Finished(rec, "selfterm"))
         /\ UNCHANGED <<records, gauge>>

\* "await task" (line 127) ends inside the worker's own stop_for_device:
\* after a self-cancel the CancelledError arrives there and is suppressed;
\* another task that was popped has finished (an error it ended with is
\* re-raised).
WorkerStopResume(t, susp) ==
    /\ \/ Runnable(t, "self_stop")
       \/ Runnable(t, "await_other") /\ Done(task[t].awaiting)
    /\ IF task[t].pc = "await_other" /\ task[task[t].awaiting].how = "error"
       THEN IF task[t].after = "run"
            THEN Finally(t, task[t], "error", susp)
            ELSE /\ task' = T(t, Finished(task[t], "error"))
                 /\ UNCHANGED <<records, gauge>>
       ELSE StopReturned(t, task[t], susp)
    /\ UNCHANGED <<tasks, nextTask, call>>
    /\ UNCHANGED <<ingVars, connVars, lsnVars, fnVars>>

\* A cancelled task is resumed with CancelledError at its suspension point.
DeliverCancel(t, susp) ==
    /\ Live(t)
    /\ task[t].must_cancel
    /\ LET rec == [task[t] EXCEPT !.must_cancel = FALSE]
       IN  CASE rec.pc \in {"start", "refresh", "create_wait", "sleep1"} ->
                  \* outside the try/finally of lines 158-182
                  /\ task' = T(t, Finished(rec, "cancelled"))
                  /\ UNCHANGED <<records, gauge>>
             [] rec.pc \in {"connect", "listen", "handle", "retry_wait"} ->
                  \* lines 165-166 re-raise; the finally block runs
                  Finally(t, rec, "cancelled", susp)
             [] rec.pc = "cleanup" ->
                  \* CancelledError leaves suppress(Exception) at line 180:
                  \* line 181 is not reached
                  /\ task' = T(t, Finished(rec, "cancelled"))
                  /\ UNCHANGED <<records, gauge>>
             [] OTHER ->
                  \* "self_stop" / "await_other": suppress(CancelledError) at
                  \* line 124 swallows it and stop_for_device returns
                  StopReturned(t, rec, susp)
    /\ UNCHANGED <<tasks, nextTask, call>>
    /\ UNCHANGED <<ingVars, connVars, lsnVars, fnVars>>

(***************************************************************************)
(* Manager calls.  A caller is an HTTP request or admin save running       *)
(* apply_device; "returned" is the instant the call hands control back.    *)
(***************************************************************************)
InCall(c) == call[c].pc \in {"start_await", "stop_await"}

\* Ghost bookkeeping: a call overlaps another when both are in progress at
\* some instant.
Overlapping(c) == \E o \in Callers \ {c} : InCall(o)

MarkOthers(c, cs) ==
    [o \in Callers |->
        IF o = c THEN cs[o]
        ELSE IF InCall(o) THEN [cs[o] EXCEPT !.overlap = TRUE] ELSE cs[o]]

NewTask(m) == [NoTask EXCEPT !.mac = m, !.pc = "start"]

\* Lines 113-114: self._tasks[device.mac] = task
install(tbl, m, t) == [tbl EXCEPT ![m] = t]

\* Lines 112-114: create the task and install it; the call returns.
CreateAndInstall(c, base, tbl, tsk) ==
    /\ task' = [tsk EXCEPT ![base.new] = NewTask(base.mac)]
    /\ tasks' = install(tbl, base.mac, base.new)
    /\ call' = MarkOthers(c, [call EXCEPT ![c] = [base EXCEPT !.pc = "returned"]])

JustReturn(c, base, tbl, tsk) ==
    /\ task' = tsk
    /\ tasks' = tbl
    /\ call' = MarkOthers(c, [call EXCEPT ![c] = [base EXCEPT !.pc = "returned"]])

\* stop_for_device as far as its first suspension (lines 119-127), for the
\* caller c whose call record is base.
\*   popped nothing / a finished task : the call goes on at once
\*   popped a task that ended in error: "await task" re-raises it
\*   popped a live task               : cancel it and wait
StopPart(c, m, base, waitpc) ==
    LET u == tasks[m]
        popped == [tasks EXCEPT ![m] = 0]
    IN  IF u = 0 \/ (Done(u) /\ task[u].how # "error")
        THEN IF waitpc = "start_await"
             THEN CreateAndInstall(c, base, popped, task)
             ELSE JustReturn(c, base, popped, task)
        ELSE IF Done(u)
        THEN /\ tasks' = popped
             /\ task' = task
             /\ call' = MarkOthers(c, [call EXCEPT ![c] =
                            [base EXCEPT !.pc = "returned", !.raised = TRUE]])
        ELSE /\ tasks' = popped
             /\ task' = [task EXCEPT ![u].must_cancel = TRUE]
             /\ call' = MarkOthers(c, [call EXCEPT ![c] =
                            [base EXCEPT !.pc = waitpc, !.awaiting = u]])

\* start_for_device (lines 107-114); the id of the task it will create is
\* reserved when the call begins.
start_for_device(c, m, base) ==
    /\ nextTask <= MaxTasks
    /\ nextTask' = nextTask + 1
    /\ StopPart(c, m, [base EXCEPT !.new = nextTask], "start_await")

\* stop_for_device (lines 116-127)
stop_for_device(c, m, base) ==
    /\ nextTask' = nextTask
    /\ StopPart(c, m, base, "stop_await")

\* apply_device (lines 100-105) with the device object the caller passes.
ApplyDevice(c, m, dev) ==
    /\ call[c].pc = "idle"
    /\ LET base == [IdleCall EXCEPT !.mac = m, !.collect = should_collect(dev),
                                    !.pre = IF tasks[m] # 0 /\ Live(tasks[m])
                                            THEN tasks[m] ELSE 0,
                                    !.overlap = Overlapping(c)]
       IN  IF should_collect(dev)
           THEN start_for_device(c, m, base)
           ELSE stop_for_device(c, m, base)
    /\ UNCHANGED <<records, gauge>>
    /\ UNCHANGED <<ingVars, connVars, lsnVars, fnVars>>

\* "await task" (line 127) returns or raises in a suspended call.
CallResume(c) ==
    /\ InCall(c)
    /\ Done(call[c].awaiting)
    /\ IF task[call[c].awaiting].how = "error"
       THEN /\ call' = [call EXCEPT ![c].pc = "returned", ![c].raised = TRUE]
            /\ UNCHANGED <<task, tasks>>
       ELSE IF call[c].pc = "start_await"
       THEN /\ task' = [task EXCEPT ![call[c].new] = NewTask(call[c].mac)]
            /\ tasks' = install(tasks, call[c].mac, call[c].new)
            /\ call' = [call EXCEPT ![c].pc = "returned"]
       ELSE /\ call' = [call EXCEPT ![c].pc = "returned"]
            /\ UNCHANGED <<task, tasks>>
    /\ UNCHANGED <<nextTask, records, gauge>>
    /\ UNCHANGED <<ingVars, connVars, lsnVars, fnVars>>

\* The caller goes on after the call (the request handler finishes).
CallReturn(c) ==
    /\ call[c].pc = "returned"
    /\ call' = [call EXCEPT ![c] = IdleCall]
    /\ UNCHANGED <<tasks, task, nextTask, records, gauge>>
    /\ UNCHANGED <<ingVars, connVars, lsnVars, fnVars>>

MgrNext ==
    \/ \E c \in Callers, m \in Macs, dev \in DeviceRow : ApplyDevice(c, m, dev)
    \/ \E c \in Callers : CallResume(c)
    \/ \E c \in Callers : CallReturn(c)
    \/ \E t \in TaskIds : WorkerStart(t)
    \/ \E t \in TaskIds, row \in DeviceRow \cup {NoRow}, cfg_ok \in BOOLEAN :
            Refresh(t, row, cfg_ok)
    \/ \E t \in TaskIds : CreateWaitDone(t)
    \/ \E t \in TaskIds : ConnectOk(t)
    \/ \E t \in TaskIds, susp \in BOOLEAN : ConnectFail(t, susp)
    \/ \E t \in TaskIds : Envelope(t)
    \/ \E t \in TaskIds : HandleOk(t)
    \/ \E t \in TaskIds, susp \in BOOLEAN : HandleRaise(t, susp)
    \/ \E t \in TaskIds, susp \in BOOLEAN : ListenRaise(t, susp)
    \/ \E t \in TaskIds, susp \in BOOLEAN : ListenEnd(t, susp)
    \/ \E t \in TaskIds, susp \in BOOLEAN : RetryWaitDone(t, susp)
    \/ \E t \in TaskIds : CleanupDone(t)
    \/ \E t \in TaskIds : Sleep1Done(t)
    \/ \E t \in TaskIds, susp \in BOOLEAN : WorkerStopResume(t, susp)
    \/ \E t \in TaskIds, susp \in BOOLEAN : DeliverCancel(t, susp)

(***************************************************************************)
(* Ingestion: SubscriptionManager._handle_envelope and record_reading      *)
(***************************************************************************)
\* Envelopes handled in one behaviour.
MaxEnvelopes == 2
\* Largest value datetime.now() takes in one behaviour.
MaxClock == 1

Devices == {"AA01", "AA02"}
Handlers == {"h1", "h2"}

\* JSON values.  num: a number; dec: a string holding a decimal number;
\* iso: a string holding an ISO-8601 instant; text: any other string; map: a
\* nested object, its items in insertion order.
None == [kind |-> "none", v |-> 0, s |-> "", items |-> <<>>]
Num(n) == [kind |-> "num", v |-> n, s |-> "", items |-> <<>>]
Dec(n) == [kind |-> "dec", v |-> n, s |-> "", items |-> <<>>]
Iso(n) == [kind |-> "iso", v |-> n, s |-> "", items |-> <<>>]
Text(str) == [kind |-> "text", v |-> 0, s |-> str, items |-> <<>>]
Map(items) == [kind |-> "map", v |-> 0, s |-> "", items |-> items]

\* A payload is a dict: its items in insertion order, keys distinct.
Payloads ==
    { << <<"ts", Iso(5)>>, <<"energy", Dec(1)>> >>,
      << <<"energy", Dec(1)>>, <<"ts", Iso(5)>> >>,
      << <<"energy", Dec(1)>> >>,
      << <<"ts", Num(0)>>, <<"timestamp", Text("soon")>>, <<"energy", Num(1)>> >>,
      << <<"ts", Iso(5)>> >>,
      << <<"timestamp", Num(5)>>, <<"energy", Dec(1)>>, <<"mac", Text("BB02")>> >> }

\* Python truth value of a JSON value.
Truthy(val) ==
    /\ val.kind # "none"
    /\ ~(val.kind = "num" /\ val.v = 0)
    /\ ~(val.kind = "text" /\ val.s = "")
    /\ ~(val.kind = "map" /\ val.items = <<>>)

\* key in payload
HasKey(payload, key) == \E i \in DOMAIN payload : payload[i][1] = key

\* payload.get(key)
Get(payload, key) ==
    IF HasKey(payload, key)
    THEN payload[CHOOSE i \in DOMAIN payload : payload[i][1] = key][2]
    ELSE None

\* Python's "a or b"
Or(a, b) == IF Truthy(a) THEN a ELSE b

\* Two payloads are the same dict when they hold the same items.
AsDict(payload) == {payload[i] : i \in DOMAIN payload}

\* The keys in the order sorted() puts them.
KeyOrder == <<"data", "energy", "mac", "timestamp", "ts">>

RECURSIVE SortedFrom(_, _)
SortedFrom(payload, k) ==
    IF k > Len(KeyOrder) THEN <<>>
    ELSE (IF HasKey(payload, KeyOrder[k])
          THEN << <<KeyOrder[k], Get(payload, KeyOrder[k])>> >>
          ELSE <<>>) \o SortedFrom(payload, k + 1)

\* A digest that keeps the insertion order of the items.
hash_payload_unsorted(payload) == payload

\* _hash_payload: sha256 of repr(sorted(payload.items())); the digest is
\* represented by the text it is computed from.
hash_payload(payload) == SortedFrom(payload, 1)

\* SubscriptionManager._parse_timestamp
parse_timestamp(payload, now) ==
    LET raw == Or(Get(payload, "ts"), Get(payload, "timestamp"))
    IN  IF raw = None THEN now
        ELSE IF raw.kind = "num" THEN raw.v
        ELSE IF raw.kind = "iso" THEN raw.v
        ELSE now

\* SubscriptionManager._to_decimal: TRUE when it returns a Decimal.
to_decimal(val) == val.kind \in {"num", "dec"}

\* The payload itself fixes the timestamp of the reading.
CarriesTimestamp(payload) ==
    Or(Get(payload, "ts"), Get(payload, "timestamp")).kind \in {"num", "iso"}

NoEff == [rows |-> 0, commit |-> 0, duplicate |-> 0, dead |-> 0]

IdleHnd == [pc |-> "idle", mac |-> "-", label |-> "-", payload |-> <<>>, ts |-> 0,
            reason |-> "-", again |-> FALSE, failed |-> FALSE, eff |-> NoEff]

Labels == Devices \cup {"BB02"}
Reasons == {"ingest_error:ValueError", "ingest_error:IntegrityError",
            "ingest_error:OperationalError"}

IngInit ==
    /\ rows = <<>>
    /\ deadRows = <<>>
    /\ counter = [ingress |-> [l \in Labels |-> 0],
                  commit |-> [d \in Devices |-> 0],
                  duplicate |-> [d \in Devices |-> 0],
                  dead_letter |-> [r \in Reasons |-> 0]]
    /\ clock = 0
    /\ hnd = [h \in Handlers |-> IdleHnd]
    /\ handled = {}

RECURSIVE SumOver(_, _)
SumOver(f, S) ==
    IF S = {} THEN 0
    ELSE LET x == CHOOSE x \in S : TRUE IN f[x] + SumOver(f, S \ {x})

\* Reading.objects.filter(mac=..., ts=..., payload_hash=...).exists()
reading_exists(rws, mac, ts, payload_hash) ==
    \E i \in DOMAIN rws :
        rws[i].mac = mac /\ rws[i].ts = ts /\ rws[i].payload_hash = payload_hash

\* An insert that the table accepts whatever it already holds.
create_unconstrained(rws, row) == [raises |-> "none", rows |-> Append(rws, row)]

\* Reading.objects.create under Meta.unique_together (mac, ts, payload_hash)
create_reading(rws, row) ==
    IF reading_exists(rws, row.mac, row.ts, row.payload_hash)
    THEN [raises |-> "IntegrityError", rows |-> rws]
    ELSE [raises |-> "none", rows |-> Append(rws, row)]

\* datetime.now() moves on.
Tick ==
    /\ clock < MaxClock
    /\ clock' = clock + 1
    /\ UNCHANGED <<rows, deadRows, counter, hnd, handled>>
    /\ UNCHANGED <<mgrVars, connVars, lsnVars, fnVars>>

\* _handle_envelope lines 186-200 and record_reading line 37, up to the first
\* await: the existence query (line 45) or, for a payload without a usable
\* energy, record_dead_letter (line 213).  A handler is a worker's loop over
\* its envelopes: it takes the next one when the last handling has ended.
HandleEnvelope(h, dev, payload) ==
    /\ hnd[h].pc \in {"idle", "done", "raised"}
    /\ SumOver(counter.ingress, Labels) < MaxEnvelopes
    /\ LET macv == Or(Get(payload, "mac"), Text(dev))
           label == macv.s
           base == [IdleHnd EXCEPT !.mac = dev, !.label = label,
                                   !.payload = payload,
                                   !.again = <<dev, AsDict(payload)>> \in handled]
       IN  /\ counter' = [counter EXCEPT !.ingress[label] = @ + 1]
           /\ IF to_decimal(Get(payload, "energy"))
              THEN hnd' = [hnd EXCEPT ![h] =
                             [base EXCEPT !.pc = "exists",
                                          !.ts = parse_timestamp(payload, clock)]]
              ELSE hnd' = [hnd EXCEPT ![h] =
                             [base EXCEPT !.pc = "dead_letter",
                                          !.reason = "ingest_error:ValueError"]]
    /\ UNCHANGED <<rows, deadRows, clock, handled>>
    /\ UNCHANGED <<mgrVars, connVars, lsnVars, fnVars>>

\* record_reading lines 45-48: the existence query ran.  ok = FALSE: the
\* storage call raised (connection lost).
ExistsDone(h, ok) ==
    /\ hnd[h].pc = "exists"
    /\ LET r == hnd[h]
       IN  IF ~ok
           THEN /\ hnd' = [hnd EXCEPT ![h].pc = "dead_letter", ![h].failed = TRUE,
                                      ![h].reason = "ingest_error:OperationalError"]
                /\ UNCHANGED <<counter, handled>>
           ELSE IF reading_exists(rows, r.mac, r.ts, hash_payload(r.payload))
           THEN /\ counter' = [counter EXCEPT !.duplicate[r.mac] = @ + 1]
                /\ hnd' = [hnd EXCEPT ![h].pc = "done",
                                      ![h].eff.duplicate = @ + 1]
                /\ handled' = handled \cup {<<r.mac, AsDict(r.payload)>>}
           ELSE /\ hnd' = [hnd EXCEPT ![h].pc = "create"]
                /\ UNCHANGED <<counter, handled>>
    /\ UNCHANGED <<rows, deadRows, clock>>
    /\ UNCHANGED <<mgrVars, connVars, lsnVars, fnVars>>

\* record_reading lines 50-66: the insert ran; on success the commit counter.
CreateDone(h, ok) ==
    /\ hnd[h].pc = "create"
    /\ LET r == hnd[h]
           res == create_reading(rows, [mac |-> r.mac, ts |-> r.ts,
                                        payload |-> r.payload,
                                        payload_hash |-> hash_payload(r.payload)])
       IN  IF ~ok
           THEN /\ hnd' = [hnd EXCEPT ![h].pc = "dead_letter", ![h].failed = TRUE,
                                      ![h].reason = "ingest_error:OperationalError"]
                /\ UNCHANGED <<rows, counter, handled>>
           ELSE IF res.raises # "none"
           THEN /\ hnd' = [hnd EXCEPT ![h].pc = "dead_letter",
                                      ![h].reason = "ingest_error:IntegrityError"]
                /\ UNCHANGED <<rows, counter, handled>>
           ELSE /\ rows' = res.rows
                /\ counter' = [counter EXCEPT !.commit[r.mac] = @ + 1]
                /\ hnd' = [hnd EXCEPT ![h].pc = "done",
                                      ![h].eff.rows = @ + 1,
                                      ![h].eff.commit = @ + 1]
                /\ handled' = handled \cup {<<r.mac, AsDict(r.payload)>>}
    /\ UNCHANGED <<deadRows, clock>>
    /\ UNCHANGED <<mgrVars, connVars, lsnVars, fnVars>>

\* A dead letter that is marked for a retry.
dead_letter_retryable(mac, reason) ==
    [mac |-> mac, reason |-> reason, retryable |-> TRUE]

\* A dead letter whose reason leaves out the kind of the exception.
dead_letter_untagged(mac, reason) ==
    [mac |-> mac, reason |-> "ingest_error:ValueError", retryable |-> FALSE]

\* The DeadLetter row of _handle_envelope lines 213-219: the payload's mac,
\* failure_reason "ingest_error:<exception type>" and retryable=False.
dead_letter(mac, reason) ==
    [mac |-> mac, reason |-> reason, retryable |-> FALSE]

\* _handle_envelope lines 212-220 with record_dead_letter (lines 80-89).
\* ok = FALSE: the dead-letter insert raised and _handle_envelope raises.
DeadLetterDone(h, ok) ==
    /\ hnd[h].pc = "dead_letter"
    /\ IF ok
       THEN /\ deadRows' = Append(deadRows, dead_letter(hnd[h].label,
                                                        hnd[h].reason))
            /\ counter' = [counter EXCEPT !.dead_letter[hnd[h].reason] = @ + 1]
            /\ hnd' = [hnd EXCEPT ![h].pc = "done", ![h].eff.dead = @ + 1]
       ELSE /\ hnd' = [hnd EXCEPT ![h].pc = "raised", ![h].failed = TRUE]
            /\ UNCHANGED <<deadRows, counter>>
    /\ UNCHANGED <<rows, clock, handled>>
    /\ UNCHANGED <<mgrVars, connVars, lsnVars, fnVars>>

IngNext ==
    \/ Tick
    \/ \E h \in Handlers, dev \in Devices, payload \in Payloads :
            HandleEnvelope(h, dev, payload)
    \/ \E h \in Handlers, ok \in BOOLEAN : ExistsDone(h, ok)
    \/ \E h \in Handlers, ok \in BOOLEAN : CreateDone(h, ok)
    \/ \E h \in Handlers, ok \in BOOLEAN : DeadLetterDone(h, ok)

(***************************************************************************)
(* SharedMQTTConnection: one pooled connection, its paho client (network   *)
(* thread), the callbacks the thread posts to the event loop, and the pool *)
(* calls subscribe / unsubscribe / publish.                                *)
(***************************************************************************)
\* max_attempts of the connection's own RetryPolicy instance (self._policy of
\* SharedMQTTConnection; the code's default is 12).
conn_max_attempts == 1
\* Pool calls made in one behaviour.
MaxCalls == 2
\* Times the link is lost (on_disconnect fires) in one behaviour; every
\* reconnect task is created by one of them.
MaxDrops == 2
\* Messages the broker delivers in one behaviour.
MaxMsgs == 2

Topics == {"t1", "t2"}
MsgTopics == {"t1", "tx"}
SubMacs == {"AA01", "bb02"}
NoMac == "-"
PayloadMacs == {"aa01", "BB02", NoMac}
InvalidJson == "<invalid>"
RIds == 1..MaxDrops

\* str.upper()
Upper(str) ==
    CASE str = "aa01" -> "AA01"
      [] str = "bb02" -> "BB02"
      [] OTHER -> str

NoSub == [mac |-> "-", q |-> 0]

IdleOp == [kind |-> "-", pc |-> "idle", topic |-> "-", mac |-> "-", attempt |-> 0,
           awaiting |-> 0, ret |-> 0, raised |-> "-", created |-> FALSE, seq |-> 0]

\* op["last"] keeps the call that completed most recently (its arguments and
\* its result); seq counts the completed calls.
Last == "last"

NoRTask == [pc |-> "unborn", attempt |-> 0, must_cancel |-> FALSE]

Cb(kind) == [kind |-> kind, topic |-> "-", mac |-> "-", id |-> 0]

DeadReasons == {"invalid_json", "unknown_topic", "mac_mismatch"}

ConnInit ==
    /\ conn = [connected |-> FALSE, stop_requested |-> FALSE,
               loop_running |-> FALSE, loop |-> FALSE, reconnect_task |-> 0,
               lock |-> "-"]
    /\ client = [state |-> "new", drops |-> 0, msgs |-> 0, sent |-> {}]
    /\ topics = [t \in Topics |-> NoSub]
    /\ queues = <<>>
    /\ rtask = [r \in RIds |-> NoRTask]
    /\ loopq = <<>>
    /\ op = [c \in Callers \cup {Last} |-> IdleOp]
    /\ mcount = [dead |-> [r \in DeadReasons |-> 0],
                 ingress |-> [m \in SubMacs |-> 0],
                 reconnect |-> [m \in SubMacs |-> 0]]

\* The paho client in state st.  sent: the topics the broker holds a
\* subscription for in the current session (the client connects with a clean
\* session, so it ends with the connection).
InState(cl, st) ==
    [cl EXCEPT !.state = st, !.sent = IF st = "connected" THEN @ ELSE {}]

\* client.subscribe(topic) / client.unsubscribe(topic): a packet is sent only
\* while the client is connected.
client_subscribe(cl, topic) ==
    IF cl.state = "connected" THEN [cl EXCEPT !.sent = @ \cup {topic}] ELSE cl
client_unsubscribe(cl, topic) ==
    IF cl.state = "connected" THEN [cl EXCEPT !.sent = @ \ {topic}] ELSE cl

HasTopics(tbl) == \E t \in Topics : tbl[t] # NoSub

\* subscribe that binds the topic anew on every call.
subscribe_always_new(tbl, topic, mac, fresh) ==
    [raises |-> "-", ret |-> fresh, created |-> TRUE,
     topics |-> [tbl EXCEPT ![topic] = [mac |-> mac, q |-> fresh]]]

\* subscribe lines 238-245: the routing-table section.  fresh is the queue
\* object asyncio.Queue() would return.
subscribe_entry(tbl, topic, mac, fresh) ==
    IF tbl[topic] # NoSub
    THEN IF tbl[topic].mac # mac
         THEN [raises |-> "ValueError", ret |-> 0, created |-> FALSE, topics |-> tbl]
         ELSE [raises |-> "-", ret |-> tbl[topic].q, created |-> FALSE, topics |-> tbl]
    ELSE [raises |-> "-", ret |-> fresh, created |-> TRUE,
          topics |-> [tbl EXCEPT ![topic] = [mac |-> mac, q |-> fresh]]]

\* _handle_message comparing the MACs as they are written.
handle_message_exact(tbl, qs, cnt, topic, payload_mac, id) ==
    LET sub == tbl[topic]
    IN  IF topic \notin Topics \/ sub = NoSub
        THEN [queues |-> qs,
              mcount |-> [cnt EXCEPT !.dead["unknown_topic"] = @ + 1]]
        ELSE IF payload_mac # sub.mac
        THEN [queues |-> qs,
              mcount |-> [cnt EXCEPT !.dead["mac_mismatch"] = @ + 1]]
        ELSE [queues |-> [qs EXCEPT ![sub.q] =
                            Append(@, [mac |-> sub.mac, payload_mac |-> payload_mac,
                                       id |-> id])],
              mcount |-> [cnt EXCEPT !.ingress[sub.mac] = @ + 1]]

\* _handle_message (lines 135-154): the queues and counters afterwards.
handle_message(tbl, qs, cnt, topic, payload_mac, id) ==
    IF topic \notin Topics \/ tbl[topic] = NoSub
    THEN [queues |-> qs,
          mcount |-> [cnt EXCEPT !.dead["unknown_topic"] = @ + 1]]
    ELSE LET sub == tbl[topic]
             payload_mac_norm == IF payload_mac # NoMac THEN Upper(payload_mac)
                                 ELSE NoMac
             expected_mac_norm == Upper(sub.mac)
         IN  IF payload_mac_norm # expected_mac_norm
             THEN [queues |-> qs,
                   mcount |-> [cnt EXCEPT !.dead["mac_mismatch"] = @ + 1]]
             ELSE [queues |-> [qs EXCEPT ![sub.q] =
                                 Append(@, [mac |-> sub.mac,
                                            payload_mac |-> payload_mac,
                                            id |-> id])],
                   mcount |-> [cnt EXCEPT !.ingress[sub.mac] = @ + 1]]

\* _schedule_reconnect creating a task whenever it is called.
schedule_always(cn, tasks_, fresh) ==
    ~(~cn.loop \/ cn.stop_requested)

\* _schedule_reconnect (lines 156-161): whether it creates a task.
schedule_reconnect(cn, tasks_, fresh) ==
    IF ~cn.loop \/ cn.stop_requested THEN FALSE
    ELSE IF cn.reconnect_task # 0 /\ tasks_[cn.reconnect_task].pc # "done" THEN FALSE
    ELSE TRUE

OpFree(c) == op[c].pc = "idle"
Calls == op[Last].seq + Cardinality({c \in Callers : op[c].pc # "idle"})
OpBegin(c, kind, topic, mac) ==
    [IdleOp EXCEPT !.kind = kind, !.topic = topic, !.mac = mac]

\* The call of caller c returns (or raises) with the record rec.
Complete(c, rec) ==
    [op EXCEPT ![c] = IdleOp,
               ![Last] = [rec EXCEPT !.pc = "returned", !.attempt = 0,
                                     !.awaiting = 0, !.seq = op[Last].seq + 1]]

\* What follows "await self.ensure_connected()" in subscribe (lines 238-248)
\* and publish (lines 264-268).  cn: the connection fields, st: the state of
\* the paho client at that moment.
Proceed(c, o, cn, cl) ==
    IF o.kind = "subscribe"
    THEN LET res == subscribe_entry(topics, o.topic, o.mac, Len(queues) + 1)
         IN  /\ topics' = res.topics
             /\ queues' = IF res.created THEN Append(queues, <<>>) ELSE queues
             /\ conn' = cn
             /\ client' = IF res.created /\ cn.connected   \* lines 246-247
                           THEN client_subscribe(cl, o.topic) ELSE cl
             /\ op' = Complete(c, [o EXCEPT !.ret = res.ret,
                                             !.raised = res.raises,
                                             !.created = res.created])
    ELSE /\ UNCHANGED <<topics, queues>>
         /\ conn' = cn
         /\ client' = cl
         /\ IF cl.state = "connected"
            THEN op' = [op EXCEPT ![c] = [o EXCEPT !.pc = "pub_wait"]]
            ELSE \* client.publish returns MQTT_ERR_NO_CONN (line 266)
                 op' = Complete(c, [o EXCEPT !.raised = "ConnectionError"])

\* ensure_connected lines 208-217, holding the connect lock.
Locked(c, o) ==
    IF conn.connected
    THEN Proceed(c, o, conn, client)
    ELSE /\ conn' = [conn EXCEPT !.lock = c, !.loop = TRUE,
                                 !.stop_requested = FALSE, !.loop_running = TRUE]
         /\ op' = [op EXCEPT ![c] = [o EXCEPT !.pc = "ec_connect", !.attempt = 1]]
         /\ UNCHANGED <<topics, queues, client>>

\* ensure_connected lines 205-207.
ensure_connected(c, o) ==
    IF conn.connected
    THEN Proceed(c, o, conn, client)
    ELSE IF conn.lock # "-"
    THEN /\ op' = [op EXCEPT ![c] = [o EXCEPT !.pc = "ec_lock"]]
         /\ UNCHANGED <<conn, topics, queues, client>>
    ELSE Locked(c, o)

\* disconnect lines 280-286, after the reconnect task (if any) has ended.
Close(c, o, cn, cl) ==
    /\ client' = IF cl.state = "connected" THEN InState(cl, "closed") ELSE cl
    /\ conn' = [cn EXCEPT !.loop_running = FALSE]
    /\ loopq' = IF cn.loop THEN Append(loopq, Cb("clear")) ELSE loopq
    /\ op' = Complete(c, o)

\* disconnect (lines 274-286) as far as its first suspension.
disconnect(c, o, cl) ==
    LET r == conn.reconnect_task
        cn == [conn EXCEPT !.stop_requested = TRUE]
    IN  IF r # 0 /\ rtask[r].pc # "done"
        THEN /\ conn' = cn
             /\ rtask' = [rtask EXCEPT ![r].must_cancel = TRUE]
             /\ op' = [op EXCEPT ![c] = [o EXCEPT !.pc = "dc_await", !.awaiting = r]]
             /\ client' = cl
             /\ loopq' = loopq
        ELSE /\ Close(c, o, cn, cl)
             /\ rtask' = rtask

\* ---- pool calls
Subscribe(c, topic, mac) ==
    /\ OpFree(c)
    /\ Calls < MaxCalls
    /\ ensure_connected(c, OpBegin(c, "subscribe", topic, mac))
    /\ UNCHANGED <<rtask, loopq, mcount>>
    /\ UNCHANGED <<mgrVars, ingVars, lsnVars, fnVars>>

Publish(c, topic) ==
    /\ OpFree(c)
    /\ Calls < MaxCalls
    /\ ensure_connected(c, OpBegin(c, "publish", topic, "-"))
    /\ UNCHANGED <<rtask, loopq, mcount>>
    /\ UNCHANGED <<mgrVars, ingVars, lsnVars, fnVars>>

\* unsubscribe (lines 250-260)
Unsubscribe(c, topic, mac) ==
    /\ OpFree(c)
    /\ Calls < MaxCalls
    /\ LET o == OpBegin(c, "unsubscribe", topic, mac)
           popped == [topics EXCEPT ![topic] = NoSub]
           sent == IF conn.connected THEN client_unsubscribe(client, topic)
                   ELSE client   \* lines 257-258
       IN  IF topics[topic] = NoSub \/ topics[topic].mac # mac
           THEN /\ op' = Complete(c, o)
                /\ UNCHANGED <<topics, conn, client, rtask, loopq>>
           ELSE /\ topics' = popped
                /\ IF ~HasTopics(popped)
                   THEN disconnect(c, o, sent)
                   ELSE /\ op' = Complete(c, o)
                        /\ client' = sent
                        /\ UNCHANGED <<conn, rtask, loopq>>
    /\ UNCHANGED <<queues, mcount>>
    /\ UNCHANGED <<mgrVars, ingVars, lsnVars, fnVars>>

\* The connect lock became free (line 207).
EcLockAcquired(c) ==
    /\ op[c].pc = "ec_lock"
    /\ conn.lock = "-"
    /\ Locked(c, op[c])
    /\ UNCHANGED <<rtask, loopq, mcount>>
    /\ UNCHANGED <<mgrVars, ingVars, lsnVars, fnVars>>

\* client.connect ran in the executor (lines 216-234).  After a failed attempt
\* that is not the last, the call sleeps and submits the next one: it stays
\* suspended and nothing of it runs in between.  The retry gauges written by
\* _record_retry_failure are not part of the modelled state.
EcConnectDone(c, ok) ==
    /\ op[c].pc = "ec_connect"
    /\ IF ok
       THEN /\ mcount' = mcount
            /\ IF conn.connected
               THEN Proceed(c, op[c], [conn EXCEPT !.lock = "-"],
                            InState(client, "opened"))
               ELSE /\ client' = InState(client, "opened")
                    /\ op' = [op EXCEPT ![c].pc = "ec_wait"]
                    /\ UNCHANGED <<conn, topics, queues>>
       ELSE /\ client' = IF client.state \in {"opened", "connected"}
                         THEN InState(client, "closed") ELSE client
            /\ mcount' = mcount
            /\ UNCHANGED <<topics, queues>>
            /\ IF op[c].attempt >= conn_max_attempts
               THEN /\ conn' = [conn EXCEPT !.loop_running = FALSE, !.lock = "-"]
                    /\ op' = Complete(c, [op[c] EXCEPT !.raised = "ConnectionError"])
               ELSE \* wait_with_retry (line 234), then the next attempt
                    /\ conn' = conn
                    /\ op' = [op EXCEPT ![c].attempt = @ + 1]
    /\ UNCHANGED <<rtask, loopq>>
    /\ UNCHANGED <<mgrVars, ingVars, lsnVars, fnVars>>

\* self._connected.wait() returned (lines 224-225).
EcWaitDone(c) ==
    /\ op[c].pc = "ec_woken"
    /\ Proceed(c, op[c], [conn EXCEPT !.lock = "-"], client)
    /\ UNCHANGED <<rtask, loopq, mcount>>
    /\ UNCHANGED <<mgrVars, ingVars, lsnVars, fnVars>>

\* wait_for_publish returned (lines 268-272).
PubWaitDone(c) ==
    /\ op[c].pc = "pub_wait"
    /\ IF HasTopics(topics)
       THEN /\ op' = Complete(c, op[c])
            /\ UNCHANGED <<conn, client, rtask, loopq>>
       ELSE disconnect(c, op[c], client)
    /\ UNCHANGED <<topics, queues, mcount>>
    /\ UNCHANGED <<mgrVars, ingVars, lsnVars, fnVars>>

\* The cancelled reconnect task has ended (line 279).
DcAwaitDone(c) ==
    /\ op[c].pc = "dc_await"
    /\ rtask[op[c].awaiting].pc = "done"
    /\ Close(c, op[c], conn, client)
    /\ UNCHANGED <<topics, queues, rtask, mcount>>
    /\ UNCHANGED <<mgrVars, ingVars, lsnVars, fnVars>>

\* ---- the paho network thread (runs while the loop is started)
\* CONNACK accepted: _on_connect (lines 91-104).  The two tasks it also
\* schedules send SUBSCRIBE packets and count reconnects, which change nothing
\* that is modelled.
OnConnect ==
    /\ conn.loop_running
    /\ client.state = "opened"
    /\ client' = [client EXCEPT !.state = "connected", !.sent = {}]
    /\ loopq' = IF conn.loop THEN loopq \o <<Cb("set"), Cb("resubscribe")>>
                ELSE loopq
    /\ UNCHANGED <<conn, topics, queues, rtask, op, mcount>>
    /\ UNCHANGED <<mgrVars, ingVars, lsnVars, fnVars>>

\* The link is lost or the broker refuses: _on_disconnect (lines 110-116).
OnDisconnect ==
    /\ conn.loop_running
    /\ client.state \in {"opened", "connected"}
    /\ client.drops < MaxDrops
    /\ client' = [InState(client, "lost") EXCEPT !.drops = @ + 1]
    /\ loopq' = IF ~conn.loop THEN loopq
                ELSE IF conn.stop_requested THEN Append(loopq, Cb("clear"))
                ELSE loopq \o <<Cb("clear"), Cb("schedule")>>
    /\ UNCHANGED <<conn, topics, queues, rtask, op, mcount>>
    /\ UNCHANGED <<mgrVars, ingVars, lsnVars, fnVars>>

\* The network thread re-establishes a lost link by itself.
LinkRestored ==
    /\ conn.loop_running
    /\ client.state = "lost"
    /\ client' = InState(client, "opened")
    /\ UNCHANGED <<conn, topics, queues, rtask, loopq, op, mcount>>
    /\ UNCHANGED <<mgrVars, ingVars, lsnVars, fnVars>>

\* _on_message (lines 118-130); body is the payload's mac, or InvalidJson for
\* a payload that is no JSON object.  id tells the payloads apart: it is the
\* number of the message in the order the callback received them.
OnMessage(topic, body) ==
    /\ conn.loop_running
    /\ client.state = "connected"
    /\ client.msgs < MaxMsgs
    /\ client' = [client EXCEPT !.msgs = @ + 1]
    /\ IF body = InvalidJson
       THEN /\ mcount' = [mcount EXCEPT !.dead["invalid_json"] = @ + 1]
            /\ loopq' = loopq
       ELSE /\ mcount' = mcount
            /\ loopq' = IF conn.loop
                        THEN Append(loopq, [kind |-> "msg", topic |-> topic,
                                            mac |-> body,
                                            id |-> client.msgs + 1])
                        ELSE loopq
    /\ UNCHANGED <<conn, topics, queues, rtask, op>>
    /\ UNCHANGED <<mgrVars, ingVars, lsnVars, fnVars>>

\* ---- callbacks run by the event loop, in the order they were posted
Next_cb(kind) == loopq # <<>> /\ Head(loopq).kind = kind

\* lambda: self._connected.set().  Event.set resolves the future of every
\* waiter: each of them resumes later, whatever the event is by then.
CbSet ==
    /\ Next_cb("set")
    /\ loopq' = Tail(loopq)
    /\ conn' = [conn EXCEPT !.connected = TRUE]
    /\ op' = [c \in DOMAIN op |->
                IF op[c].pc = "ec_wait" THEN [op[c] EXCEPT !.pc = "ec_woken"]
                ELSE op[c]]
    /\ rtask' = [r \in RIds |->
                   IF rtask[r].pc = "r_wait" THEN [rtask[r] EXCEPT !.pc = "r_woken"]
                   ELSE rtask[r]]
    /\ UNCHANGED <<client, topics, queues, mcount>>
    /\ UNCHANGED <<mgrVars, ingVars, lsnVars, fnVars>>

\* lambda: self._connected.clear()
CbClear ==
    /\ Next_cb("clear")
    /\ loopq' = Tail(loopq)
    /\ conn' = [conn EXCEPT !.connected = FALSE]
    /\ UNCHANGED <<client, topics, queues, rtask, op, mcount>>
    /\ UNCHANGED <<mgrVars, ingVars, lsnVars, fnVars>>

\* A _resubscribe_all that issues no SUBSCRIBE.
resubscribe_none(cl, tbl) == cl

\* _resubscribe_all with the order of its SUBSCRIBE calls left out: the
\* client after client.subscribe(topic) for every topic of the table.
resubscribe_all(cl, tbl) ==
    IF cl.state = "connected"
    THEN [cl EXCEPT !.sent = @ \cup {t \in Topics : tbl[t] # NoSub}]
    ELSE cl

\* _record_reconnects: record_reconnect(subscription.mac) for every entry.
record_reconnects(cnt, tbl) ==
    [cnt EXCEPT !.reconnect =
        [m \in SubMacs |-> @[m] + Cardinality({t \in Topics : tbl[t] # NoSub
                                                           /\ tbl[t].mac = m})]]

\* _schedule_resubscribe and _schedule_reconnect_metrics (lines 180-196): the
\* two tasks they create run one after the other, neither suspends.
CbResubscribe ==
    /\ Next_cb("resubscribe")
    /\ loopq' = Tail(loopq)
    /\ client' = resubscribe_all(client, topics)
    /\ mcount' = record_reconnects(mcount, topics)
    /\ UNCHANGED <<conn, topics, queues, rtask, op>>
    /\ UNCHANGED <<mgrVars, ingVars, lsnVars, fnVars>>

\* _schedule_reconnect (lines 156-161)
CbSchedule ==
    /\ Next_cb("schedule")
    /\ loopq' = Tail(loopq)
    /\ LET fresh == 1 + Cardinality({r \in RIds : rtask[r].pc # "unborn"})
       IN  IF schedule_reconnect(conn, rtask, fresh)
           THEN /\ rtask' = [rtask EXCEPT ![fresh] = [NoRTask EXCEPT !.pc = "start",
                                                                    !.attempt = 1]]
                /\ conn' = [conn EXCEPT !.reconnect_task = fresh]
           ELSE UNCHANGED <<rtask, conn>>
    /\ UNCHANGED <<client, topics, queues, op, mcount>>
    /\ UNCHANGED <<mgrVars, ingVars, lsnVars, fnVars>>

\* _dispatch_message and the _handle_message task it creates (lines 132-154)
HandleMessage ==
    /\ Next_cb("msg")
    /\ loopq' = Tail(loopq)
    /\ LET res == handle_message(topics, queues, mcount,
                                 Head(loopq).topic, Head(loopq).mac,
                                 Head(loopq).id)
       IN  /\ queues' = res.queues
           /\ mcount' = res.mcount
    /\ UNCHANGED <<conn, client, topics, rtask, op>>
    /\ UNCHANGED <<mgrVars, ingVars, lsnVars, fnVars>>

\* ---- the reconnect task, _reconnect_loop (lines 163-178)
RRuns(r, pc) == rtask[r].pc = pc /\ ~rtask[r].must_cancel

RFinished(r) ==
    [rtask EXCEPT ![r].pc = "done", ![r].must_cancel = FALSE, ![r].attempt = 0]

RStart(r) ==
    /\ RRuns(r, "start")
    /\ rtask' = IF conn.stop_requested THEN RFinished(r)
                ELSE [rtask EXCEPT ![r].pc = "r_connect"]
    /\ UNCHANGED <<conn, client, topics, queues, loopq, op, mcount>>
    /\ UNCHANGED <<mgrVars, ingVars, lsnVars, fnVars>>

\* client.reconnect ran in the executor (lines 167-178).  After a failed
\* attempt that is not the last, the task sleeps, re-tests the loop condition
\* (line 165) and submits the next attempt.
RConnectDone(r, ok) ==
    /\ RRuns(r, "r_connect")
    /\ IF ok
       THEN /\ client' = InState(client, "opened")
            /\ mcount' = mcount
            /\ rtask' = IF conn.connected THEN RFinished(r)
                        ELSE [rtask EXCEPT ![r].pc = "r_wait"]
       ELSE /\ client' = IF client.state \in {"opened", "connected"}
                         THEN InState(client, "closed") ELSE client
            /\ mcount' = mcount
            /\ rtask' = IF rtask[r].attempt >= conn_max_attempts
                           \/ conn.stop_requested
                        THEN RFinished(r)
                        ELSE [rtask EXCEPT ![r].attempt = @ + 1]
    /\ UNCHANGED <<conn, topics, queues, loopq, op>>
    /\ UNCHANGED <<mgrVars, ingVars, lsnVars, fnVars>>

\* self._connected.wait() returned (lines 168-170).
RWaitDone(r) ==
    /\ RRuns(r, "r_woken")
    /\ rtask' = RFinished(r)
    /\ UNCHANGED <<conn, client, topics, queues, loopq, op, mcount>>
    /\ UNCHANGED <<mgrVars, ingVars, lsnVars, fnVars>>

\* The task cancelled by disconnect (line 277) receives CancelledError.  A
\* client.reconnect already running in the executor thread is not stopped by
\* that: it may still open the socket (opens = TRUE).
RCancelled(r, opens) ==
    /\ rtask[r].pc \notin {"unborn", "done"}
    /\ rtask[r].must_cancel
    /\ opens => rtask[r].pc = "r_connect"
    /\ rtask' = RFinished(r)
    /\ client' = IF opens THEN InState(client, "opened") ELSE client
    /\ UNCHANGED <<conn, topics, queues, loopq, op, mcount>>
    /\ UNCHANGED <<mgrVars, ingVars, lsnVars, fnVars>>

ConnNext ==
    \/ \E c \in Callers, t \in Topics, m \in SubMacs : Subscribe(c, t, m)
    \/ \E c \in Callers, t \in Topics, m \in SubMacs : Unsubscribe(c, t, m)
    \/ \E c \in Callers, t \in Topics : Publish(c, t)
    \/ \E c \in Callers : EcLockAcquired(c)
    \/ \E c \in Callers, ok \in BOOLEAN : EcConnectDone(c, ok)
    \/ \E c \in Callers : EcWaitDone(c)
    \/ \E c \in Callers : PubWaitDone(c)
    \/ \E c \in Callers : DcAwaitDone(c)
    \/ OnConnect
    \/ OnDisconnect
    \/ LinkRestored
    \/ CbSet
    \/ CbClear
    \/ CbResubscribe
    \/ CbSchedule
    \/ \E r \in RIds : RStart(r)
    \/ \E r \in RIds, ok \in BOOLEAN : RConnectDone(r, ok)
    \/ \E r \in RIds : RWaitDone(r)
    \/ \E r \in RIds, opens \in BOOLEAN : RCancelled(r, opens)

\* ---- the worker behind a queue: MQTTAdapter.listen and the loop of
\* _run_device that handles what it yields
MaxQueues == MaxCalls
QIds == 1..MaxQueues
IdleListener == [pc |-> "get", id |-> 0, mac |-> "-"]

LsnInit ==
    /\ listener = [q \in QIds |-> IdleListener]
    /\ written = <<>>

\* A queue.get() that returns the newest item.
queue_get_newest(items) ==
    [item |-> items[Len(items)], rest |-> SubSeq(items, 1, Len(items) - 1)]

\* asyncio.Queue.get on a queue that holds items.
queue_get(items) == [item |-> Head(items), rest |-> Tail(items)]

\* listen (lines 353-355) yields the next envelope and _run_device calls
\* _handle_envelope with it (subscription_manager.py lines 162-163), which
\* runs up to its first storage call.
ListenGet(q) ==
    /\ q <= Len(queues)
    /\ listener[q].pc = "get"
    /\ queues[q] # <<>>
    /\ LET got == queue_get(queues[q])
       IN  /\ queues' = [queues EXCEPT ![q] = got.rest]
           /\ listener' = [listener EXCEPT ![q] =
                              [pc |-> "handling", id |-> got.item.id,
                               mac |-> got.item.mac]]
    /\ UNCHANGED <<conn, client, topics, rtask, loopq, op, mcount, written>>
    /\ UNCHANGED <<mgrVars, ingVars, fnVars>>

\* _handle_envelope returned (line 164): stored = TRUE when record_reading
\* wrote a Reading row, FALSE for a duplicate or a dead letter.
HandleEnvelopeDone(q, stored) ==
    /\ listener[q].pc = "handling"
    /\ written' = IF stored
                  THEN Append(written, [q |-> q, mac |-> listener[q].mac,
                                        id |-> listener[q].id])
                  ELSE written
    /\ listener' = [listener EXCEPT ![q] = IdleListener]
    /\ UNCHANGED connVars
    /\ UNCHANGED <<mgrVars, ingVars, fnVars>>

\* Message routing: the calls that change the routing table, the connection
\* they open and close, and the messages the broker delivers.  Losing the link
\* and reconnecting (ConnNext) changes neither the table nor the queues.
RouteNext ==
    \/ \E c \in Callers, t \in Topics, m \in SubMacs : Subscribe(c, t, m)
    \/ \E c \in Callers, t \in Topics, m \in SubMacs : Unsubscribe(c, t, m)
    \/ \E c \in Callers : EcLockAcquired(c)
    \/ \E c \in Callers, ok \in BOOLEAN : EcConnectDone(c, ok)
    \/ \E c \in Callers : EcWaitDone(c)
    \/ OnConnect
    \/ \E t \in MsgTopics, body \in PayloadMacs \cup {InvalidJson} : OnMessage(t, body)
    \/ CbSet
    \/ CbResubscribe
    \/ CbClear
    \/ HandleMessage
    \/ \E q \in QIds : ListenGet(q)
    \/ \E q \in QIds, stored \in BOOLEAN : HandleEnvelopeDone(q, stored)


\* ---- one topic, and what the event loop and the executor are bound to do
\* The steps the program takes by itself once they are enabled: the event
\* loop runs the callbacks posted to it and resumes the coroutines whose wait
\* is over, and a call submitted to the executor returns or raises.  What the
\* broker does (accepting a session, dropping the link, restoring it) and
\* when a caller makes a call is not among them.
ConnProgress ==
    \/ \E c \in Callers : EcLockAcquired(c)
    \/ \E c \in Callers, ok \in BOOLEAN : EcConnectDone(c, ok)
    \/ \E c \in Callers : EcWaitDone(c)
    \/ \E c \in Callers : PubWaitDone(c)
    \/ \E c \in Callers : DcAwaitDone(c)
    \/ CbSet
    \/ CbClear
    \/ CbResubscribe
    \/ CbSchedule
    \/ \E r \in RIds : RStart(r)
    \/ \E r \in RIds, ok \in BOOLEAN : RConnectDone(r, ok)
    \/ \E r \in RIds : RWaitDone(r)
    \/ \E r \in RIds, opens \in BOOLEAN : RCancelled(r, opens)

\* The calls on one topic of one device, and the broker.
ConnCalls ==
    \/ \E c \in Callers : Subscribe(c, "t1", "AA01")
    \/ \E c \in Callers : Unsubscribe(c, "t1", "AA01")
    \/ \E c \in Callers : Publish(c, "t1")
    \/ OnConnect
    \/ OnDisconnect
    \/ LinkRestored

ConnLiveNext == ConnCalls \/ ConnProgress
(***************************************************************************)
(* RetryPolicy as a value: next_delay over policies and attempts.  Delays  *)
(* are whole seconds.                                                      *)
(***************************************************************************)
\* Largest attempt number asked of a policy.
MaxAttempt == 13

\* The policies of the model; RetryPolicy() is one of them.
Policies ==
    [base_delay : {1, 2, 3}, max_delay : {8, 60}, max_attempts : {3, 12}]
\* RetryPolicy(): the defaults of the dataclass.
RetryPolicy == [base_delay |-> base_delay, max_delay |-> max_delay, max_attempts |-> 12]

\* RetryPolicy.next_delay of the policy self.
policy_next_delay_uncapped(self, attempt) ==
    IF attempt < 1 THEN [raises |-> "ValueError", delay |-> 0]
    ELSE IF attempt > self.max_attempts THEN [raises |-> "RuntimeError", delay |-> 0]
    ELSE [raises |-> "none", delay |-> self.base_delay * Pow2(attempt - 1)]

policy_next_delay(self, attempt) ==
    IF attempt < 1 THEN [raises |-> "ValueError", delay |-> 0]
    ELSE IF attempt > self.max_attempts THEN [raises |-> "RuntimeError", delay |-> 0]
    ELSE LET delay == self.base_delay * Pow2(attempt - 1)
         IN  [raises |-> "none", delay |-> Min(delay, self.max_delay)]

PolDefault ==
    /\ policy = RetryPolicy
    /\ waits = <<>>

PolInit ==
    /\ policy \in Policies
    /\ waits = <<>>

\* One call policy.next_delay(attempt); the model keeps the last two calls.
NextDelay(attempt) ==
    /\ LET r == policy_next_delay(policy, attempt)
           w == [attempt |-> attempt, raises |-> r.raises, delay |-> r.delay]
       IN  waits' = IF waits = <<>> THEN <<w>> ELSE <<waits[Len(waits)], w>>
    /\ UNCHANGED <<policy, qryVars, extVars>>
    /\ UNCHANGED <<mgrVars, ingVars, connVars, lsnVars>>

RetryNext ==
    \E attempt \in 0..MaxAttempt : NextDelay(attempt)

(***************************************************************************)
(* The electricity query: GET /v1/devices/{id}/electricity                 *)
(*                                                                         *)
(* Instants are ticks since the epoch of the model, TicksPerSecond ticks   *)
(* to the second, so that an instant may have a part below the second.     *)
(* Every datetime of the query is an aware UTC datetime, for which         *)
(* _ensure_utc leaves the instant as it is.  Decimal values are integers   *)
(* (ten-thousandths); NULL is the SQL null of a nullable column.           *)
(***************************************************************************)
TicksPerSecond == 2
\* Largest number of Reading rows of the device.
MaxReadings == 2

Seconds(s) == s * TicksPerSecond
\* None, and the null of a nullable column; every value proper is >= 0.
NULL == -1

\* What a client may send as window: a text that is no DeviceWindow, or one
\* that is.
Windows == {"1h", "24h", "7d", "30d"}
\* DeviceWindow: the values of the enumeration.
DeviceWindow == {"24h", "7d", "30d"}
\* The devices a request may name: one that does not exist, and the caller's.
DeviceIds == {"d9", "d1"}

\* DeviceApiService._WINDOW_CONFIG
_WINDOW_CONFIG ==
    [w \in DeviceWindow |->
        CASE w = "24h" -> [duration |-> Seconds(24 * 3600), bucket |-> Seconds(5 * 60),
                           interval_label |-> "pt5m"]
          [] w = "7d"  -> [duration |-> Seconds(7 * 86400), bucket |-> Seconds(30 * 60),
                           interval_label |-> "pt30m"]
          [] w = "30d" -> [duration |-> Seconds(30 * 86400), bucket |-> Seconds(2 * 3600),
                           interval_label |-> "pt120m"]]

\* timedelta.total_seconds() followed by int(): the whole seconds of a span.
total_seconds(span) == span \div TicksPerSecond

\* float(x or 0.0)
float_or_zero(x) == IF x = NULL THEN 0 ELSE x

\* DeviceApiService._format_timestamp: the UTC text of an instant, kept as its
\* whole seconds, its part below the second and the zone suffix.
_format_timestamp(value) ==
    [seconds |-> value \div TicksPerSecond, fraction |-> value % TicksPerSecond,
     zone |-> "Z"]

\* DeviceApiService._empty_bucket_stats
_empty_bucket_stats == [count |-> 0, power |-> 0, voltage |-> 0, current |-> 0, energy |-> 0]

\* The orders in which the storage engine may return the rows S under
\* ORDER BY ts: rows of equal ts come in any order.
OrderedByTs(S) ==
    {s \in [1..Cardinality(S) -> S] :
        /\ \A i, j \in 1..Cardinality(S) : i # j => s[i] # s[j]
        /\ \A i, j \in 1..Cardinality(S) : i < j => s[i].ts <= s[j].ts}

\* The WHERE clause of both queries: the device's rows with
\* start_utc <= ts <= end_utc.
InRange(rows_, start_utc, end) == {r \in rows_ : r.ts >= start_utc /\ r.ts <= end}

\* _build_buckets, step 2: the accumulators of bucket number index (from 0).
NewBucket(start, bucket, index) ==
    [ts |-> start + index * bucket,
     stats |-> [count |-> 0, power |-> 0, voltage |-> 0, current |-> 0, energy |-> 0,
                last_power |-> NULL, last_voltage |-> NULL, last_current |-> NULL,
                first_energy |-> NULL, last_energy |-> NULL]]

\* _build_buckets, step 3, for one reading: idx is floor(delta / bucket_seconds);
\* the buckets are numbered from 0 in the code and from 1 in the sequence.
bucket_index(start, bucket, ts) == (ts - start) \div (total_seconds(bucket) * TicksPerSecond)

AddReading(bks, start, bucket, reading) ==
    LET idx == bucket_index(start, bucket, reading.ts)
    IN  IF idx < 0 \/ idx >= Len(bks) THEN bks
        ELSE LET s == bks[idx + 1].stats
                 energy_value == reading.energy_kwh
             IN  [bks EXCEPT ![idx + 1].stats =
                     [s EXCEPT !.count = s.count + 1,
                               !.last_power = float_or_zero(reading.power),
                               !.last_voltage = float_or_zero(reading.voltage),
                               !.last_current = float_or_zero(reading.current),
                               !.first_energy = IF s.first_energy = NULL
                                                THEN energy_value ELSE s.first_energy,
                               !.last_energy = energy_value]]

RECURSIVE AddReadings(_, _, _, _, _)
AddReadings(bks, start, bucket, readings, k) ==
    IF k > Len(readings) THEN bks
    ELSE AddReadings(AddReading(bks, start, bucket, readings[k]),
                     start, bucket, readings, k + 1)

\* _build_buckets, step 4, for one bucket.
energy_of(stats) ==
    IF stats.first_energy = NULL \/ stats.last_energy = NULL THEN 0
    ELSE LET delta_energy == stats.last_energy - stats.first_energy
         IN  IF delta_energy >= 0 THEN delta_energy ELSE 0

Finish(stats) ==
    IF stats.count # 0
    THEN [stats EXCEPT !.power = float_or_zero(stats.last_power),
                       !.voltage = float_or_zero(stats.last_voltage),
                       !.current = float_or_zero(stats.last_current),
                       !.energy = energy_of(stats)]
    ELSE [stats EXCEPT !.power = 0, !.voltage = 0, !.current = 0, !.energy = 0]

\* DeviceApiService._build_buckets
_build_buckets(start, bucket, bucket_count, readings) ==
    LET empty == [i \in 1..bucket_count |-> NewBucket(start, bucket, i - 1)]
        filled == AddReadings(empty, start, bucket, readings, 1)
    IN  [i \in 1..bucket_count |-> [filled[i] EXCEPT !.stats = Finish(filled[i].stats)]]

\* The SQL of _aggregate_buckets_postgres: bucket_index of a row.
sql_bucket_index(ts, start_epoch, bucket_seconds) ==
    (ts - Seconds(start_epoch)) \div Seconds(bucket_seconds)

First(s, idx, start_epoch, bucket_seconds) ==
    LET at == {k \in 1..Len(s) : sql_bucket_index(s[k].ts, start_epoch, bucket_seconds) = idx}
    IN  s[CHOOSE k \in at : \A m \in at : k <= m]

Last_(s, idx, start_epoch, bucket_seconds) ==
    LET at == {k \in 1..Len(s) : sql_bucket_index(s[k].ts, start_epoch, bucket_seconds) = idx}
    IN  s[CHOOSE k \in at : \A m \in at : k >= m]

\* _run_bucket_query: the grouped rows, as a function of the bucket indexes
\* that have rows.  asc and desc are the orders the two row_number() windows
\* give the rows of the WHERE clause (rn_asc = 1 is the first row of a bucket
\* in asc, rn_desc = 1 the last row of the bucket in desc).
_run_bucket_query(asc, desc, start_epoch, bucket_seconds, bucket_count) ==
    LET idxs == {sql_bucket_index(asc[k].ts, start_epoch, bucket_seconds) : k \in 1..Len(asc)}
                    \cap (0..bucket_count - 1)
    IN  [idx \in idxs |->
            LET f == First(asc, idx, start_epoch, bucket_seconds)
                l == Last_(desc, idx, start_epoch, bucket_seconds)
            IN  [bucket_index |-> idx,
                 first_energy |-> f.energy_kwh, last_energy |-> l.energy_kwh,
                 last_power |-> l.power, last_voltage |-> l.voltage,
                 last_current |-> l.current]]

\* _aggregate_buckets_postgres, lines 374-391: the stats of one grouped row.
row_stats(row) ==
    [count |-> 1,
     power |-> float_or_zero(row.last_power),
     voltage |-> float_or_zero(row.last_voltage),
     current |-> float_or_zero(row.last_current),
     energy |-> IF row.first_energy # NULL /\ row.last_energy # NULL
                   /\ row.last_energy - row.first_energy >= 0
                THEN row.last_energy - row.first_energy ELSE 0]

\* DeviceApiService._aggregate_buckets_postgres
_aggregate_buckets_postgres(asc, desc, start_utc, bucket_count, bucket_seconds, config) ==
    LET start_epoch == start_utc \div TicksPerSecond
        rows_ == _run_bucket_query(asc, desc, start_epoch, bucket_seconds, bucket_count)
        bucket_map == [idx \in DOMAIN rows_ |-> row_stats(rows_[idx])]
    IN  [i \in 1..bucket_count |->
            [ts |-> start_utc + config.bucket * (i - 1),
             stats |-> IF (i - 1) \in DOMAIN bucket_map THEN bucket_map[i - 1]
                       ELSE _empty_bucket_stats]]

NoRequest == [window |-> "-", device_id |-> "-"]
NoData == [device_id |-> "-", start_time |-> "-", end_time |-> "-", interval |-> "-",
           points |-> <<>>]
NoResponse == [status |-> "-", data |-> NoData]

\* get_device_electricity, lines 156-166: the points of the buckets that
\* counted a reading, in the order of the buckets.
Points(bs) ==
    LET seen == SelectSeq(bs, LAMBDA b : b.stats.count > 0)
    IN  [k \in 1..Len(seen) |->
            [timestamp |-> _format_timestamp(seen[k].ts),
             power_kw |-> seen[k].stats.power,
             energy_kwh |-> seen[k].stats.energy,
             voltage_v |-> seen[k].stats.voltage,
             current_a |-> seen[k].stats.current]]

\* DeviceApiService.get_device_electricity: what it raises ("none" when it
\* returns), the buckets it aggregated and the series it returns.  asc and
\* desc are the orders the storage engine gives the rows of the time range.
service_get_device_electricity(d, end, device_id, window, asc, desc) ==
    IF device_id \notin d.devices
    THEN [raises |-> "DeviceNotFoundError", buckets |-> <<>>, data |-> NoData]
    ELSE IF window \notin DOMAIN _WINDOW_CONFIG
    THEN [raises |-> "InvalidTimeRangeError", buckets |-> <<>>, data |-> NoData]
    ELSE LET config == _WINDOW_CONFIG[window]
             start_utc == end - config.duration
             bucket_seconds == total_seconds(config.bucket)
             bucket_count == total_seconds(config.duration) \div bucket_seconds
             bs == IF d.vendor = "postgresql"
                   THEN _aggregate_buckets_postgres(asc, desc, start_utc, bucket_count,
                                                    bucket_seconds, config)
                   ELSE _build_buckets(start_utc, config.bucket, bucket_count, asc)
         IN  [raises |-> "none", buckets |-> bs,
              data |-> [device_id |-> device_id,
                        start_time |-> _format_timestamp(start_utc),
                        end_time |-> _format_timestamp(end),
                        interval |-> config.interval_label,
                        points |-> Points(bs)]]

\* The route get_device_electricity: the window text is turned into a
\* DeviceWindow before the service is called.
route_device_first(d, end, device_id, window, asc, desc) ==
    LET r == service_get_device_electricity(d, end, device_id, "24h", asc, desc)
    IN  IF r.raises = "DeviceNotFoundError"
        THEN [status |-> "DEVICE_NOT_FOUND", buckets |-> <<>>, data |-> NoData]
        ELSE IF window \notin DeviceWindow
        THEN [status |-> "INVALID_TIME_RANGE", buckets |-> <<>>, data |-> NoData]
        ELSE LET r2 == service_get_device_electricity(d, end, device_id, window, asc, desc)
             IN  [status |-> "success", buckets |-> r2.buckets, data |-> r2.data]

route_get_device_electricity(d, end, device_id, window, asc, desc) ==
    IF window \notin DeviceWindow
    THEN [status |-> "INVALID_TIME_RANGE", buckets |-> <<>>, data |-> NoData]
    ELSE LET r == service_get_device_electricity(d, end, device_id, window, asc, desc)
         IN  IF r.raises = "DeviceNotFoundError"
             THEN [status |-> "DEVICE_NOT_FOUND", buckets |-> <<>>, data |-> NoData]
             ELSE IF r.raises = "InvalidTimeRangeError"
             THEN [status |-> "INVALID_TIME_RANGE", buckets |-> <<>>, data |-> NoData]
             ELSE [status |-> "success", buckets |-> r.buckets, data |-> r.data]

(***************************************************************************)
(* The inputs of the query: the clock, the request and the Reading rows.   *)
(***************************************************************************)
\* The devices of the caller.
OwnDevices == {"d1"}

\* The clock at the request: a whole second, or one tick after it.
Clocks == {Seconds(31 * 86400), Seconds(31 * 86400) + 1}

ConfigOf(window) ==
    IF window \in DeviceWindow THEN _WINDOW_CONFIG[window] ELSE _WINDOW_CONFIG["24h"]

\* Instants of interest for a window ending at end: around its start, around
\* the first bucket boundary and around its end.
Instants(window, end) ==
    LET c == ConfigOf(window)
        start == end - c.duration
    IN  {start - 1, start, start + 1, start + c.bucket - 1, start + c.bucket,
         end - 1, end, end + 1}

\* The Reading rows the device may have: energy_kwh is never null, power,
\* voltage and current are null together or not at all.
Readings(window, end) ==
    {[ts |-> t, energy_kwh |-> e, power |-> m.power, voltage |-> m.voltage,
      current |-> m.current] :
        t \in Instants(window, end), e \in {2, 5},
        m \in {[power |-> 1, voltage |-> 220, current |-> 3],
               [power |-> NULL, voltage |-> NULL, current |-> NULL]}}

\* The subsets of S with at most k elements.
RECURSIVE UpTo(_, _)
UpTo(S, k) ==
    IF k = 0 THEN {{}}
    ELSE LET smaller == UpTo(S, k - 1)
         IN  smaller \cup {part \cup {x} : part \in smaller, x \in S}


QryDefault ==
    /\ db = [vendor |-> "sqlite", devices |-> OwnDevices, readings |-> {}]
    /\ end_utc = 0
    /\ request = NoRequest
    /\ buckets = <<>>
    /\ response = NoResponse

QryInit ==
    /\ request \in [window : Windows, device_id : DeviceIds]
    /\ end_utc \in Clocks
    /\ db \in [vendor : {"postgresql", "sqlite"}, devices : {OwnDevices},
               readings : UpTo(Readings(request.window, end_utc), MaxReadings)]
    /\ buckets = <<>>
    /\ response = NoResponse

\* The request is served: route and service, with the rows of the time range
\* in the orders asc and desc.
GetDeviceElectricity(asc, desc) ==
    /\ request # NoRequest
    /\ response = NoResponse
    /\ LET r == route_get_device_electricity(db, end_utc, request.device_id,
                                              request.window, asc, desc)
       IN  /\ buckets' = r.buckets
           /\ response' = [status |-> r.status, data |-> r.data]
    /\ UNCHANGED <<db, end_utc, request, polVars, extVars>>
    /\ UNCHANGED <<mgrVars, ingVars, connVars, lsnVars>>

QryNext ==
    \E asc, desc \in OrderedByTs(InRange(db.readings,
                                         end_utc - ConfigOf(request.window).duration,
                                         end_utc)) :
        GetDeviceElectricity(asc, desc)

(***************************************************************************)
(* Login: AuthService.login behind POST /v1/auth/login.                    *)
(*                                                                         *)
(* Time is in minutes.  A login reads the User row and the clock when      *)
(* afirst() resumes it, and writes pw_fail_count and last_login_at when    *)
(* asave() runs; between the two another login may run.                    *)
(***************************************************************************)
LOCK_THRESHOLD == 3
LOCK_WINDOW == 15
\* Logins answered in one behaviour, and the last minute of the clock.
MaxLogins == 4
MaxMinutes == 30

\* The user names a request may carry: the one of the User row and another.
Usernames == {"alice", "nobody"}
NoLogin == [pc |-> "idle", ok |-> FALSE, now |-> 0, fail |-> 0, read |-> 0,
            last |-> NULL, overlapped |-> FALSE]

AuthInit ==
    /\ user = [username |-> "alice", pw_fail_count |-> 0, last_login_at |-> NULL]
    /\ wall = 0
    /\ login = [c \in Callers |-> NoLogin]
    /\ logins = <<>>

LoginsBegun == Len(logins) + Cardinality({c \in Callers : login[c].pc # "idle"})

\* The route's answer to what AuthService.login raises.
ErrorCode(raised) ==
    CASE raised = "AccountLockedError" -> "ACCOUNT_LOCKED"
      [] raised = "InvalidCredentialsError" -> "UNAUTHORIZED"
      [] OTHER -> "success"

Answer(username, ok, raised, at, read, last, left, overlapped) ==
    [username |-> username, ok |-> ok, status |-> ErrorCode(raised), at |-> at, read |-> read, last |-> last,
     left |-> left, overlapped |-> overlapped]

\* AuthService.login, lines 51-55: the account is locked for this call.
locked_always(u, now) ==
    u.pw_fail_count >= LOCK_THRESHOLD

locked(u, now) ==
    /\ u.pw_fail_count >= LOCK_THRESHOLD
    /\ u.last_login_at # NULL /\ now - u.last_login_at < LOCK_WINDOW

\* AuthService.login, lines 56-70: pw_fail_count as the call will save it.
fail_count(u, ok) ==
    LET cooled == IF u.pw_fail_count >= LOCK_THRESHOLD THEN 0 ELSE u.pw_fail_count
    IN  IF ok THEN 0 ELSE cooled + 1

\* AuthService.login, lines 64-68 and 73-81: what the call raises after it
\* has saved the row ("none" when it returns a LoginResult).
raises_after_save_late(ok, fail) ==
    IF ok THEN "none"
    ELSE IF fail > LOCK_THRESHOLD THEN "AccountLockedError"
    ELSE "InvalidCredentialsError"

raises_after_save(ok, fail) ==
    IF ok THEN "none"
    ELSE IF fail >= LOCK_THRESHOLD THEN "AccountLockedError"
    ELSE "InvalidCredentialsError"

\* login up to its asave(): lines 43-63 and 70-71.
LoginBegin(c, username, ok) ==
    /\ login[c].pc = "idle"
    /\ LoginsBegun < MaxLogins
    /\ LET others == {d \in Callers : login[d].pc # "idle"}
       IN  IF username # user.username
           THEN /\ logins' = Append(logins, Answer(username, FALSE, "InvalidCredentialsError", wall,
                                                   user.pw_fail_count, user.last_login_at,
                                                   user.pw_fail_count, others # {}))
                /\ UNCHANGED login
           ELSE IF locked(user, wall)
           THEN /\ logins' = Append(logins, Answer(username, ok, "AccountLockedError", wall,
                                                   user.pw_fail_count, user.last_login_at,
                                                   user.pw_fail_count, others # {}))
                /\ UNCHANGED login
           ELSE /\ login' = [d \in Callers |->
                                IF d = c
                                THEN [pc |-> "saving", ok |-> ok, now |-> wall,
                                      fail |-> fail_count(user, ok),
                                      read |-> user.pw_fail_count,
                                      last |-> user.last_login_at,
                                      overlapped |-> others # {}]
                                ELSE IF d \in others
                                THEN [login[d] EXCEPT !.overlapped = TRUE]
                                ELSE login[d]]
                /\ UNCHANGED logins
    /\ UNCHANGED <<user, wall>>
    /\ UNCHANGED <<mgrVars, ingVars, connVars, lsnVars, polVars, qryVars, listVars, cfgVars, shutVars, poolVars, hashVars>>

\* asave() and what follows it: lines 63-68 and 71-81.
LoginSaved(c) ==
    /\ login[c].pc = "saving"
    /\ LET l == login[c]
           raised == raises_after_save(l.ok, l.fail)
       IN  /\ user' = [user EXCEPT !.pw_fail_count = l.fail, !.last_login_at = l.now]
           /\ logins' = Append(logins, Answer(user.username, l.ok, raised, l.now, l.read, l.last, l.fail,
                                              l.overlapped))
    /\ login' = [login EXCEPT ![c] = NoLogin]
    /\ UNCHANGED wall
    /\ UNCHANGED <<mgrVars, ingVars, connVars, lsnVars, polVars, qryVars, listVars, cfgVars, shutVars, poolVars, hashVars>>

\* Five minutes pass.
AuthTick ==
    /\ wall < MaxMinutes
    /\ wall' = wall + 5
    /\ UNCHANGED <<user, login, logins>>
    /\ UNCHANGED <<mgrVars, ingVars, connVars, lsnVars, polVars, qryVars, listVars, cfgVars, shutVars, poolVars, hashVars>>

AuthNext ==
    \/ \E c \in Callers, username \in Usernames, ok \in BOOLEAN : LoginBegin(c, username, ok)
    \/ \E c \in Callers : LoginSaved(c)
    \/ AuthTick

(***************************************************************************)
(* The device list: DeviceApiService.list_devices for one device of the    *)
(* caller.  Time is in minutes.                                            *)
(***************************************************************************)
_ONLINE_THRESHOLD == 10
\* Largest number of Reading rows of the device.
MaxSeen == 2

\* Reading.ts of the rows a device may have (ts is nullable), around the
\* threshold before the clock and after it.
SeenTs == {NULL, 9, 10, 11, 25}
ListClocks == {20, 21}
NoListing == [filter |-> "-", items |-> <<>>]

\* _fetch_last_seen: Max("ts") of the device's rows, NULL when it has no row
\* with a ts (the device is then absent from the map).
_fetch_last_seen(seen) ==
    LET known == seen \ {NULL}
    IN  IF known = {} THEN NULL ELSE CHOOSE t \in known : \A x \in known : x <= t

\* DeviceApiService._determine_status
determine_status_seen_first(device, last_seen, now) ==
    IF last_seen # NULL /\ now - last_seen <= _ONLINE_THRESHOLD THEN "online"
    ELSE IF ~device.collect_enabled \/ device.status = "DISABLED" THEN "maintenance"
    ELSE "offline"

_determine_status(device, last_seen, now) ==
    IF ~device.collect_enabled \/ device.status = "DISABLED" THEN "maintenance"
    ELSE IF last_seen # NULL /\ now - last_seen <= _ONLINE_THRESHOLD THEN "online"
    ELSE "offline"

\* DeviceStatusFilter.matches
matches(filter, status) == filter = "all" \/ status = filter

\* DeviceApiService.list_devices, lines 75-97: the items before pagination.
list_devices(inv, status_filter) ==
    LET last_seen == _fetch_last_seen(inv.seen)
        status == _determine_status(inv.device, last_seen, inv.now)
    IN  IF ~matches(status_filter, status) THEN <<>>
        ELSE <<[mac |-> inv.device.mac, status |-> status, last_seen_at |-> last_seen]>>

ListDefault ==
    /\ inventory = [device |-> [mac |-> "AA01", status |-> "ENABLED", collect_enabled |-> TRUE],
                    seen |-> {}, now |-> 0]
    /\ listing = NoListing

ListInit ==
    /\ inventory \in [device : [mac : {"AA01"}, status : {"ENABLED", "DISABLED"},
                                collect_enabled : BOOLEAN],
                      seen : UpTo(SeenTs, MaxSeen), now : ListClocks]
    /\ listing = NoListing

\* GET /v1/devices?status=status_filter
ListDevices(status_filter) ==
    /\ listing = NoListing
    /\ listing' = [filter |-> status_filter, items |-> list_devices(inventory, status_filter)]
    /\ UNCHANGED inventory
    /\ UNCHANGED <<mgrVars, ingVars, connVars, lsnVars, polVars, qryVars, authVars, cfgVars, shutVars, poolVars, hashVars>>

ListNext ==
    \E status_filter \in {"online", "offline", "maintenance", "all"} : ListDevices(status_filter)

(***************************************************************************)
(* The MQTT configuration of a device, as the worker (AdapterFactory) and  *)
(* the publish endpoint read it.                                           *)
(*                                                                         *)
(* device_row is the Device row stored under the MAC "AA01".  A string     *)
(* field that was never given holds "" (create_device, lines 41-47); port  *)
(* is what "device.port or ingress_config.get('port')" yields: a port, 0   *)
(* when the stored port is 0 and the config repeats it, None (NULL) when   *)
(* the config has no port.                                                 *)
(***************************************************************************)
MqttRow == [ingress_type |-> "MQTT", broker |-> "mq", port |-> 1883,
            client_id |-> "cid", sub_topic |-> "t/sub", pub_topic |-> "t/pub"]

\* The complete row and the rows that miss exactly one setting.
DeviceRows ==
    {MqttRow,
     [MqttRow EXCEPT !.broker = ""],
     [MqttRow EXCEPT !.port = NULL],
     [MqttRow EXCEPT !.port = 0],
     [MqttRow EXCEPT !.client_id = ""],
     [MqttRow EXCEPT !.sub_topic = ""],
     [MqttRow EXCEPT !.pub_topic = ""]}

\* urlparse(broker_url).hostname / .port of "mqtt://{broker}:{port}"; the
\* exception MQTTConnectionKey.from_broker_url raises ("none" when it returns).
from_broker_url(broker, port) ==
    IF broker = "" \/ port = NULL THEN "ValueError" ELSE "none"

\* AdapterFactory.create for an MQTT device followed by MQTTAdapter.__init__:
\* the exception raised ("none" when the adapter is built).
create(row) ==
    IF row.broker = "" \/ row.port = NULL \/ row.sub_topic = "" THEN "ValueError"
    ELSE IF row.client_id = "" THEN "ValueError"
    ELSE from_broker_url(row.broker, row.port)

\* resolve_mqtt_config: the exception it raises ("none" when it returns).
resolve_mqtt_config(row) ==
    IF row.broker = "" \/ row.port = NULL THEN "ValueError"
    ELSE IF row.client_id = "" THEN "ValueError"
    ELSE "none"

\* MQTTPublishService.publish_settings: the exception it raises.  reachable:
\* the broker accepts the connection and the message (mqtt_pool.publish
\* returns); nothing listens on port 0.
publish_settings(row, reachable) ==
    IF row.ingress_type # "MQTT" THEN "ValueError"
    ELSE IF resolve_mqtt_config(row) # "none" THEN "ValueError"
    ELSE IF row.pub_topic = "" THEN "ValueError"
    ELSE IF from_broker_url(row.broker, row.port) # "none" THEN "ValueError"
    ELSE IF reachable /\ row.port # 0 THEN "none"
    ELSE "ConnectionError"

\* The MAC strings a request may carry, and _normalize_mac (strip, upper).
MacInputs == {"AA01", " aa01 ", "bb02"}

_normalize_mac(value) ==
    CASE value = " aa01 " -> "AA01"
      [] value = "bb02" -> "BB02"
      [] OTHER -> value

NoDevice == [ingress_type |-> "-", broker |-> "", port |-> NULL,
             client_id |-> "", sub_topic |-> "", pub_topic |-> ""]

\* Device.objects.aget(mac=mac): the row, or DoesNotExist (NoDevice).
aget(table, mac) == IF mac \in DOMAIN table THEN table[mac] ELSE NoDevice

\* DeviceRepository.get_by_mac (lines 59-64): the row is fetched and dropped;
\* the function ends without a return statement on the path where the row
\* exists, and returns None where it does not.
get_by_mac(table, mac) ==
    LET fetched == aget(table, mac)
    IN  IF fetched = NoDevice THEN NoDevice ELSE NoDevice

NoPublish == [mac |-> "-", authed |-> FALSE, reachable |-> FALSE, code |-> "-"]

\* publish_device_settings (routes/devices.py lines 189-227): the error code
\* of the response, "success" when it returns DevicePublishResponse.
publish_device_settings(table, authed, mac, reachable) ==
    IF ~authed THEN "UNAUTHORIZED"
    ELSE LET found == get_by_mac(table, _normalize_mac(mac))
             raised == publish_settings(found, reachable)
         IN  IF found = NoDevice THEN "DEVICE_NOT_FOUND"
             ELSE IF raised = "ValueError" THEN "INVALID_MQTT_CONFIG"
             ELSE IF raised = "ConnectionError" THEN "MQTT_UNAVAILABLE"
             ELSE "success"

\* The Device table: one row, under the MAC of the manager's device.
DeviceTable == [m \in Macs |-> device_row]

CfgDefault ==
    /\ device_row = MqttRow
    /\ published = NoPublish

CfgInit ==
    /\ device_row \in DeviceRows
    /\ published = NoPublish

\* POST /v1/device-admin/macs/{mac}/publish
PublishSettings(authed, mac, reachable) ==
    /\ published' = [mac |-> mac, authed |-> authed, reachable |-> reachable,
                     code |-> publish_device_settings(DeviceTable, authed, mac, reachable)]
    /\ UNCHANGED device_row
    /\ UNCHANGED <<mgrVars, ingVars, connVars, lsnVars, polVars, qryVars, authVars, listVars, shutVars, poolVars, hashVars>>

\* The worker refreshes the device and builds its adapter from the stored
\* configuration.
RefreshStored(t, row) ==
    Refresh(t, row, create(device_row) = "none")

\* The manager over a device whose configuration is device_row, driven by
\* one admin caller, and the publish endpoint over the same row.
Admin == "c1"

CfgNext ==
    \/ \E m \in Macs, dev \in DeviceRow : ApplyDevice(Admin, m, dev)
    \/ CallResume(Admin)
    \/ CallReturn(Admin)
    \/ \E t \in TaskIds : WorkerStart(t)
    \/ \E t \in TaskIds, row \in DeviceRow \cup {NoRow} : RefreshStored(t, row)
    \/ \E t \in TaskIds : CreateWaitDone(t)
    \/ \E t \in TaskIds : ConnectOk(t)
    \/ \E t \in TaskIds, susp \in BOOLEAN : ConnectFail(t, susp)
    \/ \E t \in TaskIds : Envelope(t)
    \/ \E t \in TaskIds : HandleOk(t)
    \/ \E t \in TaskIds, susp \in BOOLEAN : HandleRaise(t, susp)
    \/ \E t \in TaskIds, susp \in BOOLEAN : ListenRaise(t, susp)
    \/ \E t \in TaskIds, susp \in BOOLEAN : ListenEnd(t, susp)
    \/ \E t \in TaskIds, susp \in BOOLEAN : RetryWaitDone(t, susp)
    \/ \E t \in TaskIds : CleanupDone(t)
    \/ \E t \in TaskIds : Sleep1Done(t)
    \/ \E t \in TaskIds, susp \in BOOLEAN : WorkerStopResume(t, susp)
    \/ \E t \in TaskIds, susp \in BOOLEAN : DeliverCancel(t, susp)
    \/ \E authed \in BOOLEAN, mac \in MacInputs, reachable \in BOOLEAN :
            PublishSettings(authed, mac, reachable)
(***************************************************************************)
(* SubscriptionManager.shutdown (lines 88-98)                              *)
(***************************************************************************)
NoShutdown == [pc |-> "idle", pending |-> <<>>, awaiting |-> 0]

ShutDefault == shut = NoShutdown

\* list(self._tasks.values()): the tasks of the table.
RECURSIVE TaskList(_, _)
TaskList(tbl, macs) ==
    IF macs = {} THEN <<>>
    ELSE LET m == CHOOSE m \in macs : TRUE
         IN  (IF tbl[m] = 0 THEN <<>> ELSE <<tbl[m]>>) \o TaskList(tbl, macs \ {m})

\* The loop of lines 94-97 from the task at the head of pending up to its
\* next suspension: task.cancel() and "await task" for a finished task do
\* not suspend; "await task" re-raises the exception a task ended with,
\* unless it is CancelledError.
RECURSIVE cancel_and_await(_)
cancel_and_await(pending) ==
    IF pending = <<>> THEN [pc |-> "returned", pending |-> <<>>, awaiting |-> 0]
    ELSE IF Done(Head(pending))
    THEN IF task[Head(pending)].how = "error"
         THEN [pc |-> "raised", pending |-> Tail(pending), awaiting |-> 0]
         ELSE cancel_and_await(Tail(pending))
    ELSE [pc |-> "await", pending |-> Tail(pending), awaiting |-> Head(pending)]

\* Lines 91-97: take and clear the table, cancel the first task that is
\* still running and wait for it.
ShutdownBegin ==
    /\ shut.pc = "idle"
    /\ LET next == cancel_and_await(TaskList(tasks, Macs))
       IN  /\ shut' = next
           /\ task' = IF next.pc = "await"
                      THEN [task EXCEPT ![next.awaiting].must_cancel = TRUE]
                      ELSE task
    /\ tasks' = [m \in Macs |-> 0]
    /\ UNCHANGED <<nextTask, records, gauge, call>>
    /\ UNCHANGED <<ingVars, connVars, lsnVars, polVars, qryVars, authVars, listVars,
                   cfgVars, poolVars, hashVars>>

\* "await task" (line 97) ends: the task has finished.
ShutdownResume ==
    /\ shut.pc = "await"
    /\ Done(shut.awaiting)
    /\ IF task[shut.awaiting].how = "error"
       THEN /\ shut' = [shut EXCEPT !.pc = "raised", !.awaiting = 0]
            /\ task' = task
       ELSE LET next == cancel_and_await(shut.pending)
            IN  /\ shut' = next
                /\ task' = IF next.pc = "await"
                           THEN [task EXCEPT ![next.awaiting].must_cancel = TRUE]
                           ELSE task
    /\ UNCHANGED <<tasks, nextTask, records, gauge, call>>
    /\ UNCHANGED <<ingVars, connVars, lsnVars, polVars, qryVars, authVars, listVars,
                   cfgVars, poolVars, hashVars>>

\* The application takes admin changes until its shutdown has ended; the
\* calls already in progress go on.
ApplyBeforeShutdownEnds(c, m, dev) ==
    /\ shut.pc \in {"idle", "await"}
    /\ ApplyDevice(c, m, dev)

ShutNext ==
    \/ ShutdownBegin
    \/ ShutdownResume
    \/ \E c \in Callers, m \in Macs, dev \in DeviceRow : ApplyBeforeShutdownEnds(c, m, dev)
    \/ \E c \in Callers : CallResume(c)
    \/ \E c \in Callers : CallReturn(c)
    \/ \E t \in TaskIds : WorkerStart(t)
    \/ \E t \in TaskIds, row \in DeviceRow \cup {NoRow}, cfg_ok \in BOOLEAN :
            Refresh(t, row, cfg_ok)
    \/ \E t \in TaskIds : CreateWaitDone(t)
    \/ \E t \in TaskIds : ConnectOk(t)
    \/ \E t \in TaskIds, susp \in BOOLEAN : ConnectFail(t, susp)
    \/ \E t \in TaskIds : Envelope(t)
    \/ \E t \in TaskIds : HandleOk(t)
    \/ \E t \in TaskIds, susp \in BOOLEAN : HandleRaise(t, susp)
    \/ \E t \in TaskIds, susp \in BOOLEAN : ListenRaise(t, susp)
    \/ \E t \in TaskIds, susp \in BOOLEAN : ListenEnd(t, susp)
    \/ \E t \in TaskIds, susp \in BOOLEAN : RetryWaitDone(t, susp)
    \/ \E t \in TaskIds : CleanupDone(t)
    \/ \E t \in TaskIds : Sleep1Done(t)
    \/ \E t \in TaskIds, susp \in BOOLEAN : WorkerStopResume(t, susp)
    \/ \E t \in TaskIds, susp \in BOOLEAN : DeliverCancel(t, susp)

\* What the event loop is bound to do for the manager: resume a call, or
\* shutdown, whose awaited task has finished; resume a cancelled task with
\* CancelledError; resume a worker inside its own stop_for_device; and
\* adapter.disconnect() of the finally block comes to an end.
MgrFair ==
    /\ \A c \in Callers : WF_vars(CallResume(c))
    /\ WF_vars(ShutdownResume)
    /\ \A t \in TaskIds :
          /\ WF_vars(\E susp \in BOOLEAN : DeliverCancel(t, susp))
          /\ WF_vars(\E susp \in BOOLEAN : WorkerStopResume(t, susp))
          /\ WF_vars(CleanupDone(t))

(***************************************************************************)
(* SharedMQTTConnectionPool (mqtt_adapter.py lines 289-312) and the keys   *)
(* of its connections.                                                     *)
(***************************************************************************)
\* Pool calls in one behaviour.
MaxPoolCalls == 3

\* Broker URLs "mqtt://{username}:{password}@{host}:{port}" as the adapter
\* and the publish service build them, and the client ids of the devices.
BrokerUrls == [username : {""}, password : {""}, host : {"mq", "MQ"}, port : {1883}]
    \cup [username : {"u"}, password : {"pw"}, host : {"mq"}, port : {1883}]
ClientIds == {"cid1", "cid2"}
PoolKinds == {"subscribe", "unsubscribe", "publish"}

\* urlparse(url).hostname: the host in lower case.
hostname(url) == IF url.host = "MQ" THEN "mq" ELSE url.host

\* MQTTConnectionKey.from_broker_url (lines 36-45): a frozen dataclass, equal
\* and hashed by its five fields.
MQTTConnectionKey(url, client_id) ==
    [host |-> hostname(url), port |-> url.port, username |-> url.username,
     password |-> url.password, client_id |-> client_id]

\* A pool that keeps one connection per broker address and credentials,
\* whatever the client id.
get_connection_per_broker(conns, key) ==
    LET same == {k \in DOMAIN conns : [k EXCEPT !.client_id = key.client_id] = key}
    IN  IF same # {}
        THEN [connections |-> conns, connection |-> conns[CHOOSE k \in same : TRUE]]
        ELSE [connections |-> conns @@ (key :> Cardinality(DOMAIN conns) + 1),
              connection |-> Cardinality(DOMAIN conns) + 1]

\* _get_connection (lines 294-300): the dict afterwards and the connection
\* object returned; objects are numbered in the order they are created.  The
\* lock is free whenever it is asked for (its holder never suspends), so the
\* lookup and the insert are one step.
_get_connection(conns, key) ==
    IF key \in DOMAIN conns
    THEN [connections |-> conns, connection |-> conns[key]]
    ELSE [connections |-> conns @@ (key :> Cardinality(DOMAIN conns) + 1),
          connection |-> Cardinality(DOMAIN conns) + 1]

PoolDefault ==
    /\ connections = <<>>
    /\ uses = {}

Running_(c) == \E u \in uses : u.caller = c /\ u.pc = "running"

\* subscribe / unsubscribe / publish (lines 302-312) up to the await of the
\* connection's method: the pool hands the connection of the key to the call.
PoolCall(c, kind, url, client_id) ==
    /\ Cardinality(uses) < MaxPoolCalls
    /\ ~Running_(c)
    /\ LET key == MQTTConnectionKey(url, client_id)
           got == _get_connection(connections, key)
       IN  /\ connections' = got.connections
           /\ uses' = uses \cup {[caller |-> c, kind |-> kind, key |-> key,
                                  connection |-> got.connection, pc |-> "running",
                                  seq |-> Cardinality(uses) + 1]}
    /\ UNCHANGED <<mgrVars, ingVars, connVars, lsnVars, polVars, qryVars, authVars,
                   listVars, cfgVars, shutVars, hashVars>>

\* The connection's method returned or raised: the pool call ends.
PoolCallEnds(c) ==
    /\ Running_(c)
    /\ uses' = {IF u.caller = c /\ u.pc = "running" THEN [u EXCEPT !.pc = "ended"] ELSE u :
                    u \in uses}
    /\ UNCHANGED connections
    /\ UNCHANGED <<mgrVars, ingVars, connVars, lsnVars, polVars, qryVars, authVars,
                   listVars, cfgVars, shutVars, hashVars>>

PoolNext ==
    \/ \E c \in Callers, kind \in PoolKinds, url \in BrokerUrls, client_id \in ClientIds :
            PoolCall(c, kind, url, client_id)
    \/ \E c \in Callers : PoolCallEnds(c)
(***************************************************************************)
(* _hash_payload (ingestion_service.py lines 19-21) over pairs of          *)
(* payloads, some of them holding a nested object under "data".            *)
(***************************************************************************)
HashPayloads ==
    { << <<"energy", Dec(1)>>, <<"data", Map(<< <<"a", Num(1)>>, <<"b", Num(2)>> >>)>> >>,
      << <<"energy", Dec(1)>>, <<"data", Map(<< <<"b", Num(2)>>, <<"a", Num(1)>> >>)>> >>,
      << <<"data", Map(<< <<"a", Num(1)>>, <<"b", Num(2)>> >>)>>, <<"energy", Dec(1)>> >>,
      << <<"data", Map(<< <<"b", Num(2)>>, <<"a", Num(1)>> >>)>>, <<"energy", Dec(1)>> >>,
      << <<"energy", Dec(1)>>, <<"data", Map(<< <<"a", Num(1)>> >>)>> >>,
      << <<"data", Map(<< <<"a", Num(1)>>, <<"b", Num(2)>> >>)>> >>,
      << <<"data", Map(<< <<"b", Num(2)>>, <<"a", Num(1)>> >>)>> >>,
      << <<"energy", Dec(1)>> >>,
      << <<"energy", Dec(1)>>, <<"ts", Iso(5)>> >>,
      << <<"ts", Iso(5)>>, <<"energy", Dec(1)>> >> }

NoHash == [a |-> <<>>, b |-> <<>>, ha |-> <<>>, hb |-> <<>>, done |-> FALSE]

HashDefault == hashed = NoHash

HashInit == hashed \in {[NoHash EXCEPT !.a = p, !.b = q] : p \in HashPayloads, q \in HashPayloads}

\* record_reading line 37 for each of the two payloads.
HashBoth ==
    /\ ~hashed.done
    /\ hashed' = [hashed EXCEPT !.ha = hash_payload(hashed.a),
                                !.hb = hash_payload(hashed.b),
                                !.done = TRUE]
    /\ UNCHANGED <<mgrVars, ingVars, connVars, lsnVars, polVars, qryVars, authVars,
                   listVars, cfgVars, shutVars, poolVars>>

HashNext == HashBoth
(***************************************************************************)
(* Specifications: one per subsystem, all from the state after start-up.   *)
(***************************************************************************)
Init == MgrInit /\ IngInit /\ ConnInit /\ LsnInit /\ PolDefault /\ QryDefault /\ AuthInit /\ ListDefault /\ CfgDefault /\ ShutDefault /\ PoolDefault /\ HashDefault

SpecMgr == Init /\ [][MgrNext]_vars

SpecIngest == Init /\ [][IngNext]_vars

SpecConn == Init /\ [][ConnNext]_vars
SpecRoute == Init /\ [][RouteNext]_vars


\* A retry policy drawn from Policies, everything else as after start-up.
RetryInit == MgrInit /\ IngInit /\ ConnInit /\ LsnInit /\ PolInit /\ QryDefault /\ AuthInit /\ ListDefault /\ CfgDefault /\ ShutDefault /\ PoolDefault /\ HashDefault

SpecRetry == RetryInit /\ [][RetryNext]_vars

\* A request, a clock and a Reading table drawn from their sets.
QueryInit == MgrInit /\ IngInit /\ ConnInit /\ LsnInit /\ PolDefault /\ QryInit /\ AuthInit /\ ListDefault /\ CfgDefault /\ ShutDefault /\ PoolDefault /\ HashDefault

SpecQuery == QueryInit /\ [][QryNext]_vars

SpecAuth == Init /\ [][AuthNext]_vars

\* A device, its readings and a clock drawn from their sets.
ListingInit ==
    MgrInit /\ IngInit /\ ConnInit /\ LsnInit /\ PolDefault /\ QryDefault /\ AuthInit /\ ListInit /\ CfgDefault /\ ShutDefault /\ PoolDefault /\ HashDefault

SpecList == ListingInit /\ [][ListNext]_vars

\* A stored MQTT configuration drawn from DeviceRows.
ConfigInit ==
    MgrInit /\ IngInit /\ ConnInit /\ LsnInit /\ PolDefault /\ QryDefault /\ AuthInit /\ ListDefault /\ CfgInit /\ ShutDefault /\ PoolDefault /\ HashDefault

SpecCfg == ConfigInit /\ [][CfgNext]_vars

SpecShutdown == Init /\ [][ShutNext]_vars

SpecPool == Init /\ [][PoolNext]_vars

\* One topic on the shared connection; the event loop and the executor keep
\* running (weak fairness of the program's own steps), the broker and the
\* callers are free.
SpecConnLive == Init /\ [][ConnLiveNext]_vars /\ WF_vars(ConnProgress)

\* The manager with shutdown, under the event loop's scheduling.
SpecShutdownLive == Init /\ [][ShutNext]_vars /\ MgrFair

\* Two payloads drawn from HashPayloads.
HashingInit ==
    MgrInit /\ IngInit /\ ConnInit /\ LsnInit /\ PolDefault /\ QryDefault /\ AuthInit /\ ListDefault /\ CfgDefault /\ ShutDefault /\ PoolDefault /\ HashInit

SpecHash == HashingInit /\ [][HashNext]_vars
(***************************************************************************)
(* Claims about the subscription manager                                   *)
(***************************************************************************)
\* _run_device is executing for task t: it has started, has not finished, and
\* no wake-up that will end it is already scheduled (a task that was cancelled
\* is counted again once the CancelledError has arrived and it is still
\* running its cleanup).
Running(t) ==
    /\ task[t].pc \notin {"unborn", "start", "self_stop", "done"}
    /\ ~task[t].must_cancel

\* A manager call hands control back to its caller in this step.
Returns(c) == call[c].pc # "returned" /\ call'[c].pc = "returned"

\* C1: for every MAC at most one worker task (_run_device) is alive at every
\* instant, under any interleaving of apply_device / start_for_device /
\* stop_for_device calls.
C1_AtMostOneWorkerPerMac ==
    \A m \in Macs : Cardinality({t \in TaskIds : task[t].mac = m /\ Running(t)}) <= 1

\* C6: when an apply_device(d) call that overlapped no other manager call
\* returns (a first call or a repeated one), the task table holds a live
\* worker for d.mac if d is ENABLED with collect_enabled, and no entry for
\* d.mac otherwise; so applying twice ends as applying once.
ApplyPost(c) ==
    IF call[c].collect
    THEN tasks[call[c].mac] # 0 /\ Live(tasks[call[c].mac])
    ELSE tasks[call[c].mac] = 0

C6_ApplyIdempotent ==
    [][\A c \in Callers : (Returns(c) /\ ~call'[c].overlap) => ApplyPost(c)']_vars

\* C7: when apply_device returns for a device that had a running worker and
\* is no longer to be collected, the worker task is finished, the MAC is not
\* in the task table and not in the subscriber registry, whatever suspension
\* point the worker was cancelled at.
StopPost(c) ==
    /\ Done(call[c].pre)
    /\ tasks[call[c].mac] = 0
    /\ call[c].mac \notin records

C7_StopRemovesWorker ==
    [][\A c \in Callers :
          (Returns(c) /\ ~call'[c].collect /\ call'[c].pre # 0 /\ ~call'[c].overlap)
              => StopPost(c)']_vars

\* The worker is in, or has completed, its self-termination (lines 150-153,
\* 172-175 and the finally block that follows).
SelfTerminating(t) ==
    \/ task[t].pc \in {"self_stop", "await_other"}
    \/ task[t].pc = "cleanup" /\ task[t].after \in {"return", "error"}
    \/ Done(t) /\ task[t].how = "selfterm"

\* The worker finishes its self-termination after failed connect/listen
\* cycles in this step.
SelfTerminatesNow(t) ==
    /\ Live(t)
    /\ Done(t)'
    /\ task'[t].how = "selfterm"
    /\ task'[t].attempt = max_attempts + 1

\* C8 as claimed: a worker whose connect/listen cycle has failed max_attempts
\* times in a row is terminating itself (and then its MAC is absent from the
\* task table and the gauge is one lower than before it terminated).
C8_TerminatesAtMaxAttempts ==
    \A t \in TaskIds : task[t].attempt >= max_attempts => SelfTerminating(t)

\* C8 amended: a worker terminates itself exactly when a failure makes its
\* count of consecutive failures exceed max_attempts (max_attempts + 1 failed
\* cycles, or adapter creations); after max_attempts failures it retries.  When
\* it has terminated, the task table does not hold its task, its MAC is not in
\* the registry, and the gauge equals the number of registry records: one
\* lower than before its cleanup if the last cycle had activated the MAC,
\* unchanged if that cycle failed in connect.
C8_TerminatesWhenExceeded ==
    /\ [](\A t \in TaskIds :
            /\ task[t].attempt <= max_attempts + 1
            /\ task[t].create_attempt <= max_attempts + 1
            /\ SelfTerminating(t) <=>
                  (\/ task[t].attempt = max_attempts + 1
                   \/ task[t].create_attempt = max_attempts + 1)
            /\ (Done(t) /\ task[t].how = "selfterm") => tasks[task[t].mac] # t)
    /\ [][\A t \in TaskIds : SelfTerminatesNow(t) =>
              /\ task[t].mac \notin records'
              /\ gauge' = Cardinality(records')
              /\ gauge' = gauge - (IF task[t].mac \in records THEN 1 ELSE 0)]_vars

\* A worker has terminated itself after max_attempts + 1 failed cycles.
C8_Witness ==
    \E t \in TaskIds :
        Done(t) /\ task[t].how = "selfterm" /\ task[t].attempt = max_attempts + 1
(***************************************************************************)
(* Claims about ingestion                                                  *)
(***************************************************************************)
\* C2: no two stored Reading rows have the same (mac, ts, payload_hash),
\* whether record_reading calls run one after another or concurrently.
C2_ReadingsUnique ==
    \A i, j \in DOMAIN rows :
        (/\ rows[i].mac = rows[j].mac
         /\ rows[i].ts = rows[j].ts
         /\ rows[i].payload_hash = rows[j].payload_hash) => i = j

\* Two concurrent record_reading calls for the same reading: one stored the
\* row, the insert of the other was rejected.
C2_Witness ==
    /\ Len(rows) >= 1
    /\ \E h \in Handlers : hnd[h].reason = "ingest_error:IntegrityError"

\* What a second handling of a payload must have done when it returns: no
\* new row, the duplicate counter one higher, no commit, no dead-letter.
OnlyDuplicate(h) ==
    hnd[h].eff = [rows |-> 0, commit |-> 0, duplicate |-> 1, dead |-> 0]

\* A handling has returned that had storage available throughout and whose
\* payload, with a usable energy, had been ingested for this device before.
SecondHandlingDone(h) ==
    /\ hnd[h].pc = "done"
    /\ hnd[h].again
    /\ ~hnd[h].failed
    /\ to_decimal(Get(hnd[h].payload, "energy"))

\* C3 as claimed: for every payload that normalizes successfully, handling
\* it a second time leaves the rows unchanged, adds one to the duplicate
\* counter and adds neither a commit nor a dead-letter.
C3_SecondHandlingIsDuplicate ==
    \A h \in Handlers : SecondHandlingDone(h) => OnlyDuplicate(h)

\* C3 amended: the same, for payloads that carry their own timestamp (a
\* non-zero number or an ISO-8601 string under "ts" or "timestamp"); a
\* payload without one is stamped with the time of handling and is stored
\* again.
C3_SecondHandlingWithTimestamp ==
    \A h \in Handlers :
        (SecondHandlingDone(h) /\ CarriesTimestamp(hnd[h].payload))
            => OnlyDuplicate(h)

\* A payload with its own timestamp, its items in another order than the
\* first time, has been handled again and counted as a duplicate.
C3_Witness ==
    \E h \in Handlers :
        /\ SecondHandlingDone(h)
        /\ CarriesTimestamp(hnd[h].payload)
        /\ hnd[h].payload # hash_payload(hnd[h].payload)
        /\ hnd[h].eff.duplicate = 1

(***************************************************************************)
(* SharedMQTTConnection: routing, subscribe, closing, reconnect tasks.     *)
(***************************************************************************)
\* The event loop runs _handle_message for the message at the head.
HandlesMessage == Next_cb("msg") /\ loopq' = Tail(loopq)

Bound(topic) == topic \in Topics /\ topics[topic] # NoSub

\* The delivered topic is in the routing table and the uppercased payload mac
\* equals the uppercased MAC bound to the topic.
Routed(m) ==
    /\ Bound(m.topic)
    /\ m.mac # NoMac
    /\ Upper(m.mac) = Upper(topics[m.topic].mac)

OnlyDead(reason) ==
    /\ queues' = queues
    /\ mcount'.ingress = mcount.ingress
    /\ mcount'.dead = [mcount.dead EXCEPT ![reason] = @ + 1]

\* C4: a delivered message is put on the queue of its topic, and ingress is
\* counted for the MAC bound to the topic, exactly when the topic is in the
\* routing table and the payload mac equals the bound MAC after both are
\* uppercased; a message for an unknown topic adds one to the unknown_topic
\* counter only, one with a different or missing mac adds one to the
\* mac_mismatch counter only, and then no queue changes.
C4_RoutedIffTopicAndMacMatch ==
    [][HandlesMessage =>
        LET m == Head(loopq)
        IN  IF Routed(m)
            THEN LET sub == topics[m.topic]
                 IN  /\ Len(queues'[sub.q]) = Len(queues[sub.q]) + 1
                     /\ queues'[sub.q][Len(queues'[sub.q])].mac = sub.mac
                     /\ \A q \in 1..Len(queues) : q # sub.q => queues'[q] = queues[q]
                     /\ mcount'.ingress = [mcount.ingress EXCEPT ![sub.mac] = @ + 1]
                     /\ mcount'.dead = mcount.dead
            ELSE IF ~Bound(m.topic) THEN OnlyDead("unknown_topic")
            ELSE OnlyDead("mac_mismatch")]_vars

\* A message whose mac matched only after uppercasing is on a queue, and
\* another message was dropped for its mac.
C4_Witness ==
    /\ \E q \in 1..Len(queues) :
          /\ queues[q] # <<>>
          /\ queues[q][1].payload_mac # queues[q][1].mac
    /\ mcount.dead["mac_mismatch"] > 0

\* A pool call returns or raises in this step.
Completes == op'[Last].seq = op[Last].seq + 1

\* C5: a subscribe(topic, mac) that finds the topic bound to the same mac
\* returns the queue of that binding and changes neither the routing table
\* nor any queue; one that finds the topic bound to another mac raises
\* ValueError and changes neither.  (A subscribe whose connection attempt
\* fails raises ConnectionError before it looks at the table.)
C5_SubscribeAgain ==
    [][(Completes /\ op'[Last].kind = "subscribe"
                  /\ op'[Last].raised # "ConnectionError"
                  /\ topics[op'[Last].topic] # NoSub) =>
        LET o == op'[Last]
            existing == topics[o.topic]
        IN  /\ topics' = topics
            /\ queues' = queues
            /\ IF existing.mac = o.mac
               THEN o.raised = "-" /\ o.ret = existing.q
               ELSE o.raised = "ValueError"]_vars

\* A second subscribe of a bound topic has returned the existing queue.
C5_Witness ==
    /\ op[Last].kind = "subscribe"
    /\ op[Last].raised = "-"
    /\ ~op[Last].created
    /\ op[Last].seq = 2
    /\ topics[op[Last].topic] = [mac |-> op[Last].mac, q |-> op[Last].ret]

\* The operation completing in this step is a publish, or the unsubscribe
\* that removed a topic.
PublishCompletes == Completes /\ op'[Last].kind = "publish"
UnsubscribeCompletes ==
    /\ Completes
    /\ op'[Last].kind = "unsubscribe"
    /\ \/ topics' # topics
       \/ \E c \in Callers : op[c].pc = "dc_await" /\ op'[c].pc = "idle"

\* C9: when an unsubscribe that removed a topic, or a publish (returned or
\* raised), completes, the routing table is empty and no other call is in
\* progress, the client is not connected and the network loop is stopped.
C9_EmptyTableClosed ==
    [][((PublishCompletes \/ UnsubscribeCompletes)
            /\ ~HasTopics(topics')
            /\ \A c \in Callers : op'[c].pc = "idle") =>
          (client'.state # "connected" /\ ~conn'.loop_running)]_vars

Outstanding == {r \in RIds : rtask[r].pc \notin {"unborn", "done"}}

\* C10: at most one reconnect task is outstanding (created and not finished).
C10_OneReconnectTask == Cardinality(Outstanding) <= 1

\* The only call ever made is a subscribe, so no stop was requested; the link
\* was lost twice and both _schedule_reconnect callbacks have run, yet one
\* task exists and it is still running.
C10_Witness ==
    /\ op[Last].seq = 1 /\ op[Last].kind = "subscribe"
    /\ \A c \in Callers : op[c].pc = "idle"
    /\ client.drops = 2
    /\ \A i \in 1..Len(loopq) : loopq[i].kind # "schedule"
    /\ Outstanding = {1}
    /\ rtask[2].pc = "unborn"

\* The event loop runs the tasks _on_connect scheduled (_resubscribe_all and
\* _record_reconnects), after the link had been lost at least once.
ResubscribeRuns ==
    /\ Next_cb("resubscribe")
    /\ loopq' = Tail(loopq)
    /\ client.drops >= 1
    /\ client.state = "connected"

BoundTopics == {t \in Topics : topics[t] # NoSub}
TopicsOf(m) == {t \in BoundTopics : topics[t].mac = m}

WrittenOf(q) == SelectSeq(written, LAMBDA w : w.q = q)
IdsOf(seq) == [i \in 1..Len(seq) |-> seq[i].id]
Pipeline(q) ==
    IdsOf(WrittenOf(q))
        \o (IF listener[q].pc = "handling" THEN <<listener[q].id>> ELSE <<>>)
        \o IdsOf(queues[q])

Ascending(ids) == \A i, j \in 1..Len(ids) : i < j => ids[i] < ids[j]

\* C12: for every topic queue, the messages are queued in the order the
\* broker callback received them, the worker takes them from the head, and
\* the Reading writes happen in that order: written, in hand and queued
\* messages together are in arrival order.
C12_ArrivalOrderKept ==
    \A q \in 1..Len(queues) : Ascending(Pipeline(q))

\* Two messages of one topic have both been written.
C12_Witness ==
    \E q \in 1..Len(queues) : Len(WrittenOf(q)) >= 2

\* The bound a bounded topic queue would have (any value below MaxMsgs shows
\* the same).
QueueBound == 1

\* C13: no topic queue ever holds more than a fixed number of envelopes (a
\* message for a full queue would be recorded as a backpressure dead letter
\* and the oldest envelope dropped).
C13_QueuesBounded ==
    \A q \in 1..Len(queues) : Len(queues[q]) <= QueueBound

(***************************************************************************)
(* Claims about RetryPolicy.next_delay                                     *)
(***************************************************************************)
LastWait == waits[Len(waits)]

\* C14: for an attempt n with 1 <= n <= max_attempts next_delay returns
\* min(max_delay, base_delay * 2^(n-1)); for n > max_attempts it raises the
\* max-attempts failure; a returned delay never exceeds max_delay, and of two
\* returned delays the one of the larger attempt is not the smaller.
C14_NextDelay ==
    waits # <<>> =>
        LET w == LastWait
            n == w.attempt
            full == policy.base_delay * 2^(n - 1)
        IN  /\ n \in 1..policy.max_attempts =>
                /\ w.raises = "none"
                /\ w.delay = (IF policy.max_delay < full THEN policy.max_delay ELSE full)
            /\ n > policy.max_attempts => w.raises = "RuntimeError"
            /\ w.raises = "none" => w.delay <= policy.max_delay
            /\ \A i, j \in 1..Len(waits) :
                    /\ waits[i].raises = "none" /\ waits[j].raises = "none"
                    /\ waits[i].attempt <= waits[j].attempt
                    => waits[i].delay <= waits[j].delay

\* An attempt beyond the limit has raised and the next call, within the limit
\* of the default policy, is cut to max_delay.
C14_Witness ==
    /\ Len(waits) = 2
    /\ policy = RetryPolicy
    /\ waits[1].raises = "RuntimeError"
    /\ waits[2].attempt \in 1..policy.max_attempts
    /\ policy.base_delay * 2^(waits[2].attempt - 1) > policy.max_delay
    /\ waits[2].delay = policy.max_delay

(***************************************************************************)
(* Claims about the electricity query                                      *)
(***************************************************************************)
Served == response.status = "success"
Cfg == _WINDOW_CONFIG[request.window]
StartUtc == end_utc - Cfg.duration
BucketCount == Cfg.duration \div Cfg.bucket
\* The device's readings with start_utc <= ts <= end_utc.
Fetched == InRange(db.readings, StartUtc, end_utc)
\* Bucket i: the readings of the half-open interval
\* [start_utc + i*bucket, start_utc + (i+1)*bucket).
Bucket(i) ==
    {r \in Fetched : /\ StartUtc + i * Cfg.bucket <= r.ts
                     /\ r.ts < StartUtc + (i + 1) * Cfg.bucket}
Earliest(S) == {r \in S : \A x \in S : r.ts <= x.ts}
Latest(S) == {r \in S : \A x \in S : r.ts >= x.ts}
Stamp(i) == _format_timestamp(StartUtc + i * Cfg.bucket)
PointsOut == response.data.points
\* The bucket numbers a point may stand for: those stamped as the point is.
BucketsOf(p) == {i \in 0..BucketCount - 1 : Stamp(i) = p.timestamp}

\* C15: every emitted point has energy_kwh = max(0, last_energy - first_energy),
\* first_energy and last_energy being the energy of an earliest and of a
\* latest reading (by ts) of the point's bucket; so energy_kwh >= 0 also
\* after a meter reset inside the bucket.
C15_EnergyIsClampedDelta ==
    Served =>
        \A k \in 1..Len(PointsOut) :
            /\ PointsOut[k].energy_kwh >= 0
            /\ \E i \in BucketsOf(PointsOut[k]) :
                \E f \in Earliest(Bucket(i)), l \in Latest(Bucket(i)) :
                    PointsOut[k].energy_kwh =
                        (IF l.energy_kwh - f.energy_kwh > 0
                         THEN l.energy_kwh - f.energy_kwh ELSE 0)

\* The sum of the counts of the buckets: the empty ones add nothing.
RECURSIVE SumCounts(_, _)
SumCounts(bs, i) == IF i > Len(bs) THEN 0 ELSE bs[i].stats.count + SumCounts(bs, i + 1)
CountSum == SumCounts(SelectSeq(buckets, LAMBDA b : b.stats.count # 0), 1)
\* The fetched readings inside the range the buckets cover.
InWindow == {r \in Fetched : r.ts < StartUtc + BucketCount * Cfg.bucket}

\* C16: the bucket counts of a served query add up to the number of the
\* device's readings with start_utc <= ts <= end_utc that fall inside the
\* window range, whichever aggregation computed the buckets.
C16_CountsAddUp ==
    Served => CountSum = Cardinality(InWindow)

\* Reading r is counted in bucket i: the bucket has counted a reading, and
\* when r is the only reading fetched no other bucket has.
CountedIn(r, i) ==
    /\ buckets[i + 1].stats.count > 0
    /\ Fetched = {r} => \A j \in 1..Len(buckets) : j # i + 1 => buckets[j].stats.count = 0

\* C17: in a served query a reading with ts = start_utc is counted in bucket 0,
\* a reading one tick before end_utc is counted in the last bucket, and a
\* reading with ts = end_utc is among the readings the query takes in.
C17_BoundaryReadings ==
    Served =>
        \A r \in db.readings :
            /\ r.ts = StartUtc => CountedIn(r, 0)
            /\ r.ts = end_utc - 1 => CountedIn(r, BucketCount - 1)
            /\ r.ts = end_utc => r \in Fetched

\* The numbers of the buckets that received a reading.
NonEmpty == {i \in 0..BucketCount - 1 : Bucket(i) # {}}
Before(a, b) ==
    \/ a.seconds < b.seconds
    \/ a.seconds = b.seconds /\ a.fraction < b.fraction

\* C18: a served response has one point for exactly the buckets that received
\* a reading, in strictly ascending order, the point of bucket i stamped
\* start_utc + i*bucket, with power, voltage and current of a latest reading
\* of the bucket (null read as 0).
C18_OnePointPerNonEmptyBucket ==
    Served =>
        /\ Len(PointsOut) = Cardinality(NonEmpty)
        /\ \A i \in NonEmpty : \E k \in 1..Len(PointsOut) :
                /\ PointsOut[k].timestamp = Stamp(i)
                /\ \E l \in Latest(Bucket(i)) :
                        /\ PointsOut[k].power_kw = (IF l.power = NULL THEN 0 ELSE l.power)
                        /\ PointsOut[k].voltage_v = (IF l.voltage = NULL THEN 0 ELSE l.voltage)
                        /\ PointsOut[k].current_a = (IF l.current = NULL THEN 0 ELSE l.current)
        /\ \A k, m \in 1..Len(PointsOut) :
                k < m => Before(PointsOut[k].timestamp, PointsOut[m].timestamp)

\* The point lists the in-memory reference yields for the request, one for
\* each order the storage engine may give readings of equal ts.
ReferencePoints ==
    {Points(_build_buckets(StartUtc, Cfg.bucket, BucketCount, o)) : o \in OrderedByTs(Fetched)}

\* C19: whichever aggregation served the request, the points of the response
\* (bucket timestamps, power, voltage, current, energy) are those of the
\* in-memory reference _build_buckets, also for a start_utc with a part below
\* the second.
C19_StorageEngineMatchesReference ==
    Served => PointsOut \in ReferencePoints

Answered == response # NoResponse

WrongRun(k) ==
    /\ k <= Len(logins)
    /\ \A i \in 1..k :
        /\ logins[i].username = user.username
        /\ ~logins[i].ok
        /\ ~logins[i].overlapped
        /\ logins[i].at - logins[1].at < LOCK_WINDOW

\* C21: from a fail counter of 0 the first three logins with a wrong password
\* within 15 minutes are answered UNAUTHORIZED and the fourth ACCOUNT_LOCKED.
C21_LockedAtFourthAttempt ==
    \A k \in 1..Len(logins) :
        WrongRun(k) =>
            logins[k].status = (IF k <= 3 THEN "UNAUTHORIZED" ELSE "ACCOUNT_LOCKED")

\* C21 as the code has it: the first two logins with a wrong password are
\* answered UNAUTHORIZED, the third, which brings the counter to 3, and every
\* later one within the 15 minutes ACCOUNT_LOCKED.
C21_LockedAtThirdAttempt ==
    \A k \in 1..Len(logins) :
        WrongRun(k) =>
            /\ logins[k].status = (IF k <= 2 THEN "UNAUTHORIZED" ELSE "ACCOUNT_LOCKED")
            /\ logins[k].left = (IF k <= 3 THEN k ELSE 3)

\* Four wrong passwords in a row within 15 minutes have been answered.
C21_Witness ==
    /\ Len(logins) = 4
    /\ WrongRun(4)
    /\ logins[4].at > logins[1].at

\* Answer i is to a login of a locked account (the counter it read was at the
\* threshold) made 15 minutes or more after the last recorded attempt, with
\* the correct password.
AfterCooldown(i) ==
    /\ logins[i].username = user.username
    /\ logins[i].ok
    /\ logins[i].read >= LOCK_THRESHOLD
    /\ logins[i].last # NULL
    /\ logins[i].at - logins[i].last >= LOCK_WINDOW

\* C22: a login with the correct password, made at least 15 minutes after the
\* last recorded attempt of a locked account, succeeds; every login that
\* succeeds saves pw_fail_count = 0, and the row holds 0 until another login
\* is answered.
C22_SuccessResetsCounter ==
    /\ \A i \in 1..Len(logins) :
        /\ AfterCooldown(i) => logins[i].status = "success"
        /\ logins[i].status = "success" => logins[i].left = 0
    /\ logins # <<>> /\ logins[Len(logins)].status = "success" => user.pw_fail_count = 0

\* A locked account has been logged into after the cooldown.
C22_Witness ==
    /\ logins # <<>>
    /\ AfterCooldown(Len(logins))
    /\ logins[Len(logins)].status = "success"
    /\ user.pw_fail_count = 0

(***************************************************************************)
(* Claims about the device list                                            *)
(***************************************************************************)
Listed == listing # NoListing
\* The ts of the device's latest reading, if it has one.
HasLatest == \E t \in inventory.seen : t # NULL
LatestTs == CHOOSE t \in inventory.seen \ {NULL} : \A x \in inventory.seen \ {NULL} : x <= t
RuntimeStatus ==
    IF inventory.device.status = "DISABLED" \/ ~inventory.device.collect_enabled
    THEN "maintenance"
    ELSE IF HasLatest /\ inventory.now - LatestTs <= 10 THEN "online"
    ELSE "offline"

Incomplete ==
    \/ device_row.broker = ""
    \/ device_row.port \in {NULL, 0}
    \/ device_row.client_id = ""
    \/ device_row.sub_topic = ""
    \/ device_row.pub_topic = ""

\* The publish endpoint has answered an authenticated request.
Asked == published # NoPublish /\ published.authed

\* The request named a MAC that the Device table holds once normalized.
AskedStored == Asked /\ _normalize_mac(published.mac) \in DOMAIN DeviceTable

\* C24: a device whose MQTT configuration misses broker, port, client_id or
\* topic makes apply_device report a configuration error to its caller (and
\* leaves no worker for the device in the task table), and makes publish
\* answer INVALID_MQTT_CONFIG.
C24_ConfigErrorSurfaced ==
    /\ [][\A c \in Callers :
            (Returns(c) /\ call'[c].collect /\ Incomplete)
                => (call'[c].raised /\ tasks'[call'[c].mac] = 0)]_vars
    /\ []((AskedStored /\ Incomplete) => published.code = "INVALID_MQTT_CONFIG")

\* C28: the publish endpoint answers DEVICE_NOT_FOUND only when no device
\* with the normalized MAC exists; for a stored MQTT device with a complete
\* configuration and a reachable broker it answers success.
C28_NotFoundOnlyWhenAbsent ==
    /\ (AskedStored => published.code # "DEVICE_NOT_FOUND")
    /\ (AskedStored /\ ~Incomplete /\ published.reachable) => published.code = "success"
(***************************************************************************)
(* Claims about transport failures                                         *)
(***************************************************************************)
\* The connection has given up reconnecting: the link is down, the
\* reconnect task that was started for it has ended, none is scheduled, no
\* stop was requested and no pool call is in progress.  From such a state
\* only a new pool call or the broker becoming reachable again changes
\* anything.
GaveUpReconnecting ==
    /\ client.state \in {"lost", "closed"}
    /\ ~conn.connected
    /\ ~conn.stop_requested
    /\ conn.reconnect_task # 0
    /\ Outstanding = {}
    /\ loopq = <<>>
    /\ \A c \in Callers : op[c].pc = "idle"

OneReading == [rows |-> 1, commit |-> 1, duplicate |-> 0, dead |-> 0]
OneDuplicate == [rows |-> 0, commit |-> 0, duplicate |-> 1, dead |-> 0]
OneDeadLetter == [rows |-> 0, commit |-> 0, duplicate |-> 0, dead |-> 1]

\* Storage was available throughout the handling h.
StorageAvailable(h) == ~hnd[h].failed

\* C26: while storage is available, a handled envelope has exactly one
\* outcome: one new Reading and one commit count, or one duplicate count, or
\* one DeadLetter row whose failure_reason is "ingest_error:<kind>" and whose
\* retryable is false (a payload without a usable energy is one of these);
\* the handling of a dead-lettered envelope returns to the worker without
\* raising, so the worker counts no failure and takes the next envelope.
C26_OneOutcomePerEnvelope ==
    /\ \A h \in Handlers : StorageAvailable(h) =>
          /\ hnd[h].pc # "raised"
          /\ hnd[h].pc = "done" =>
                hnd[h].eff \in {OneReading, OneDuplicate, OneDeadLetter}
          /\ hnd[h].pc \notin {"idle", "done"} => hnd[h].eff = NoEff
          /\ (hnd[h].pc = "done" /\ ~to_decimal(Get(hnd[h].payload, "energy")))
                => (hnd[h].eff = OneDeadLetter
                    /\ hnd[h].reason = "ingest_error:ValueError")
    /\ \A i \in DOMAIN deadRows :
          /\ deadRows[i].reason \in Reasons
          /\ ~deadRows[i].retryable
    /\ Len(rows) = SumOver(counter.commit, Devices)
    /\ Len(deadRows) = SumOver(counter.dead_letter, Reasons)

\* One worker alone has dead-lettered an envelope without energy and then
\* stored a Reading from the next envelope.
C26_Witness ==
    /\ Len(deadRows) = 1
    /\ deadRows[1].reason = "ingest_error:ValueError"
    /\ Len(rows) = 1
    /\ hnd["h2"].pc = "idle"
    /\ hnd["h1"].pc = "done"
    /\ StorageAvailable("h1")
    /\ hnd["h1"].eff = OneReading

\* A storage call of record_reading (the existence query or the insert)
\* raised during the handling h.
ReadingStoreFailed(h) ==
    hnd[h].failed /\ hnd[h].reason = "ingest_error:OperationalError"

\* The handling h has ended: _handle_envelope returned or raised.
Ended(h) == hnd[h].pc \in {"done", "raised"}

\* The handling h wrote the dead letter of its envelope and nothing else.
DeadLettered(h) ==
    /\ hnd[h].eff = OneDeadLetter
    /\ \E i \in DOMAIN deadRows :
          deadRows[i] = [mac |-> hnd[h].label,
                         reason |-> "ingest_error:OperationalError",
                         retryable |-> FALSE]

AllStopped ==
    /\ \A t \in TaskIds : ~Live(t)
    /\ \A m \in Macs : tasks[m] = 0

\* C29: shutdown() returns, also when a worker had ended with an unhandled
\* error, and once it has returned every worker task that was started has
\* finished and the task table is empty, also when a start_for_device call
\* overlapped the shutdown.
C29_ShutdownStopsAll ==
    /\ shut.pc # "raised"
    /\ shut.pc = "returned" => AllStopped

(***************************************************************************)
(* Claims about the connection pool                                        *)
(***************************************************************************)
\* Two keys that differ in their client_id and in nothing else.
DifferOnlyInClientId(k1, k2) ==
    k1.client_id # k2.client_id /\ [k1 EXCEPT !.client_id = k2.client_id] = k2

\* C30: the pool holds at most one connection per key (host, port, username,
\* password, client_id): calls with an equal key, however they interleave,
\* use the same connection object, calls with different keys use different
\* objects, and so do two keys that differ only in client_id.
C30_OneConnectionPerKey ==
    /\ \A k1, k2 \in DOMAIN connections :
          connections[k1] = connections[k2] => k1 = k2
    /\ \A u \in uses : u.key \in DOMAIN connections /\ connections[u.key] = u.connection
    /\ \A u, v \in uses :
          /\ (u.key = v.key) <=> (u.connection = v.connection)
          /\ DifferOnlyInClientId(u.key, v.key) => u.connection # v.connection

\* A subscribe and a publish with an equal key are in progress together on
\* one connection, and a call whose key differs only in client_id has used
\* another one.
C30_Witness ==
    \E u, v, w \in uses :
        /\ u.kind = "subscribe" /\ v.kind = "publish"
        /\ u.caller # v.caller
        /\ u.pc = "running" /\ v.pc = "running"
        /\ u.key = v.key /\ u.connection = v.connection
        /\ DifferOnlyInClientId(u.key, w.key)
        /\ w.connection # u.connection
(***************************************************************************)
(* SharedMQTTConnection: connect attempts, termination, closing, and the   *)
(* interleaving of subscribe with unsubscribe and publish.                 *)
(***************************************************************************)
\* The callers whose client.connect is running in the executor (lines
\* 217-223) and the reconnect tasks whose client.reconnect is (line 167).
Connecting == {c \in Callers : op[c].pc = "ec_connect"}
Reconnecting == {r \in RIds : rtask[r].pc = "r_connect"}

\* C31: for one shared connection at most one physical connect or reconnect
\* attempt is in flight at any time: concurrent ensure_connected callers are
\* serialized, and ensure_connected issues no connect while the reconnect
\* loop of the connection is issuing a reconnect.
C31_OneAttemptInFlight ==
    Cardinality(Connecting) + Cardinality(Reconnecting) <= 1

\* The positions of a call inside ensure_connected (lines 204-234).
EcPcs == {"ec_lock", "ec_connect", "ec_wait", "ec_woken"}

\* C32: every ensure_connected call eventually returns or fails with a
\* connection error, whatever the broker does (in particular when it accepts
\* the TCP connection and never accepts the session), and the call does not
\* keep the connect lock.
C32_EnsureConnectedEnds ==
    \A c \in Callers :
        (op[c].pc \in EcPcs) ~> (op[c].pc \notin EcPcs /\ conn.lock # c)

\* disconnect() has run to its end (lines 274-286) and no ensure_connected
\* has passed lines 210-214 since: a stop is requested, the network loop is
\* stopped and no disconnect is still waiting for the reconnect task.
Closed ==
    /\ conn.stop_requested
    /\ ~conn.loop_running
    /\ \A c \in Callers : op[c].pc # "dc_await"

\* C33: Closed is terminal: once disconnect() has closed the connection, no
\* later operation on the connection object makes it connect again.
C33_ClosedIsTerminal == [][Closed => Closed']_vars

\* A subscribe that installed its topic returns in this step.
SubscribeInstalls ==
    /\ Completes
    /\ op'[Last].kind = "subscribe"
    /\ op'[Last].created

\* The network loop runs and no stop is requested: the session is live, or
\* the connect or reconnect that re-issues the subscriptions can still come.
Alive(cn) == cn.loop_running /\ ~cn.stop_requested

\* disconnect() stops the network loop in this step (lines 280-286).
Closes == conn.loop_running /\ ~conn'.loop_running /\ conn'.stop_requested

\* C34: a topic installed by subscribe is never left on a torn-down
\* connection, however subscribe interleaves with unsubscribe and publish:
\* when a subscribe that installed a topic returns, the connection is alive
\* (the SUBSCRIBE was sent on the live session, or a connect or reconnect
\* that re-issues it is still possible), and a disconnect decided on an empty
\* routing table does not close the connection once a topic is installed.
C34_InstalledTopicNotTornDown ==
    /\ [][SubscribeInstalls =>
            /\ Alive(conn')
            /\ client'.state = "connected" => op'[Last].topic \in client'.sent]_vars
    /\ [][Closes => ~HasTopics(topics')]_vars

(***************************************************************************)
(* Ingestion: the mac of a stored Reading, the payload digest, concurrent  *)
(* writers.                                                                *)
(***************************************************************************)
\* The payload of the row carries a mac.
CarriesMac(payload) == Truthy(Get(payload, "mac"))

\* C35: an envelope whose payload mac is present and differs from the MAC of
\* the device produces no Reading row for that device: the mac of every
\* stored Reading equals the uppercased mac of its payload when the payload
\* carries one.
C35_ReadingMacIsPayloadMac ==
    \A i \in DOMAIN rows :
        CarriesMac(rows[i].payload) =>
            rows[i].mac = Upper(Get(rows[i].payload, "mac").s)

Keys(payload) == {payload[i][1] : i \in DOMAIN payload}

\* Two JSON values are equal: nested objects when they hold the same items,
\* whatever their order.
SameValue(x, y) ==
    IF x.kind = "map" /\ y.kind = "map" THEN AsDict(x.items) = AsDict(y.items)
    ELSE x = y

\* Two payloads are equal as (nested) maps.
SameMap(p, q) ==
    /\ Keys(p) = Keys(q)
    /\ \A k \in Keys(p) : SameValue(Get(p, k), Get(q, k))

\* C38: payload_hash depends only on the payload as a map: two payloads that
\* are equal as nested maps, whatever the insertion order of their keys at
\* any depth, get the same payload_hash.
C38_HashOfMap ==
    (hashed.done /\ SameMap(hashed.a, hashed.b)) => hashed.ha = hashed.hb

\* The handlings of g and h have both ended, with storage available
\* throughout, and were of the same reading: same device, same ts, same
\* payload_hash, with a usable energy.
SameReadingDone(g, h) ==
    /\ g # h
    /\ hnd[g].pc = "done" /\ hnd[h].pc = "done"
    /\ ~hnd[g].failed /\ ~hnd[h].failed
    /\ hnd[g].mac = hnd[h].mac
    /\ hnd[g].ts = hnd[h].ts
    /\ hash_payload(hnd[g].payload) = hash_payload(hnd[h].payload)
    /\ to_decimal(Get(hnd[g].payload, "energy"))

\* C40: when two record_reading calls for the same (mac, ts, payload) run,
\* concurrently or not, exactly one Reading row is stored, the other call is
\* counted as a duplicate, and neither produces a dead letter.
C40_ConcurrentDuplicateIsSilent ==
    \A g, h \in Handlers :
        SameReadingDone(g, h) =>
            /\ hnd[g].eff.dead = 0 /\ hnd[h].eff.dead = 0
            /\ hnd[g].eff.rows + hnd[h].eff.rows = 1
            /\ hnd[g].eff.duplicate + hnd[h].eff.duplicate = 1

(***************************************************************************)
(* Login: the window of the lock.                                          *)
(***************************************************************************)
\* Answers i, i+1 and i+2 are to logins of the user with a wrong password
\* that all fall within one window of 15 minutes.
ThreeWrongInWindow(i) ==
    /\ \A j \in i..(i + 2) : logins[j].username = user.username /\ ~logins[j].ok
    /\ logins[i + 2].at - logins[i].at <= LOCK_WINDOW

\* C36: an account becomes locked only if three consecutive logins with a
\* wrong password all fall within one window of 15 minutes: when a login is
\* answered ACCOUNT_LOCKED (all logins so far being logins of the user, none
\* overlapping another), three such logins are among the answers up to it.
C36_LockNeedsThreeInWindow ==
    \A k \in 1..Len(logins) :
        (/\ logins[k].status = "ACCOUNT_LOCKED"
         /\ \A j \in 1..k : /\ logins[j].username = user.username
                              /\ ~logins[j].overlapped) =>
            \E i \in 1..(k - 2) : ThreeWrongInWindow(i)

(***************************************************************************)
(* Subscription manager: no deadlock, and what a finished worker leaves.   *)
(***************************************************************************)
\* The worker is inside the stop_for_device it called for its own MAC.
SelfStopping(t) == task[t].pc \in {"self_stop", "await_other"}

\* C37: the task table's mutex is never held while a task is awaited, so
\* nothing deadlocks: when a worker terminates itself while stop_for_device,
\* start_for_device or shutdown run for the same MAC from outside, every one
\* of these calls eventually returns (or raises) and the worker eventually
\* finishes.
C37_NoDeadlock ==
    /\ \A c \in Callers : InCall(c) ~> (call[c].pc = "returned")
    /\ (shut.pc = "await") ~> (shut.pc \in {"returned", "raised"})
    /\ \A t \in TaskIds : SelfStopping(t) ~> Done(t)

\* A worker is inside its own stop_for_device while a call from outside
\* waits for a task of the same MAC.
C37_Witness ==
    /\ \E t \in TaskIds : SelfStopping(t)
    /\ \E c \in Callers : InCall(c)

\* No other worker of the MAC of task t is alive.
NoOtherWorker(t) ==
    \A u \in TaskIds \ {t} : ~(Live(u) /\ task[u].mac = task[t].mac)

\* C39: whenever a worker task has finished, for whatever reason, its MAC is
\* not in the subscriber registry (no other worker of the MAC being alive),
\* the active_subscribers gauge equals the number of registry records, and
\* the task table does not hold the finished task.
C39_FinishedWorkerLeavesNothing ==
    \A t \in TaskIds :
        Done(t) =>
            /\ NoOtherWorker(t) => task[t].mac \notin records
            /\ gauge = Cardinality(records)
            /\ tasks[task[t].mac] # t

====
